---------------------------- MODULE Spec2Model ----------------------------
(***************************************************************************)
(* A model of the propositional-logic utilities of algebra-logica:          *)
(*   - evaluateExpression / evaluateSubExpression (expressionEvaluator.js)  *)
(*   - validateExpression (expressionValidator.js)                          *)
(*   - extractVariables, generateCombinations (logicOperations.js)          *)
(*                                                                         *)
(* A string is a sequence of one-character strings.  The operator symbols   *)
(* of the source are written in ASCII:                                      *)
(*    "~" is the NOT sign, "&" AND, "|" OR, "N" NAND, "R" NOR, "+" XOR,     *)
(*    "=" XNOR (biconditional), ">" IMPLICATION.                            *)
(***************************************************************************)
EXTENDS Integers, Sequences, FiniteSets, TLC

NOT == "~"
AND == "&"
OR == "|"
NAND == "N"
NOR == "R"
XOR == "+"
XNOR == "="
IMP == ">"
LP == "("
RP == ")"
SP == " "

(***************************************************************************)
(* Bounds of the model.                                                    *)
(***************************************************************************)
\* longest string of the exhaustive family of input expressions
MaxLen == 3
\* most variables handed to generateCombinations
MaxVars == 4

(***************************************************************************)
(* Strings.                                                                *)
(***************************************************************************)
Digits == {"0", "1"}

\* the variables array of extractVariables / isVariable, in source order
variablesList == <<"p", "q", "r", "x", "y", "z">>

VarSet == {variablesList[i] : i \in 1..Len(variablesList)}

\* operatorOrder with the places of AND and OR exchanged
operatorOrderMutOrFirst == <<OR, AND, NAND, NOR, XOR, XNOR, IMP>>

\* line 195: the binary operators, from the highest precedence to the lowest
operatorOrder == <<AND, OR, NAND, NOR, XOR, XNOR, IMP>>

BinOps == {operatorOrder[i] : i \in 1..Len(operatorOrder)}

\* String.prototype.includes for a single character
Includes(s, c) == \E i \in 1..Len(s) : s[i] = c

\* value ? '1' : '0'
Bit(b) == IF b THEN "1" ELSE "0"

\* the \w class of JavaScript regular expressions, on the characters in use
IsWordChar(c) == c \in VarSet \cup Digits

(***************************************************************************)
(* The operators table.                                                    *)
(***************************************************************************)
\* the operators table with the function of NAND replaced by that of AND
operatorsMutNandAsAnd(op, a, b) ==
  CASE op = NOT -> ~a
    [] op = AND -> a /\ b
    [] op = OR -> a \/ b
    [] op = NAND -> a /\ b
    [] op = NOR -> ~(a \/ b)
    [] op = XOR -> a # b
    [] op = XNOR -> a = b
    [] op = IMP -> ~a \/ b

\* lines 61-133
operators(op, a, b) ==
  CASE op = NOT -> ~a
    [] op = AND -> a /\ b
    [] op = OR -> a \/ b
    [] op = NAND -> ~(a /\ b)
    [] op = NOR -> ~(a \/ b)
    [] op = XOR -> a # b
    [] op = XNOR -> a = b
    [] op = IMP -> ~a \/ b

(***************************************************************************)
(* One pass of String.prototype.replace with a global regular expression.  *)
(* A pass is a sequence of events, left to right: a character copied, or a *)
(* match replaced by one character.                                        *)
(***************************************************************************)
Copy(c) == [hit |-> FALSE, m |-> <<c>>, r |-> c]

Hit(m, c) == [hit |-> TRUE, m |-> m, r |-> c]

\* a pass whose callback returns the match as it found it
OutOfMutKeepMatch(ev) ==
  LET RECURSIVE flat(_)
      flat(n) == IF n = 0 THEN <<>> ELSE flat(n - 1) \o ev[n].m
  IN  flat(Len(ev))

\* the string a pass of events produces
OutOf(ev) == [n \in 1..Len(ev) |-> ev[n].r]

\* the matches of a pass, in order
HitsOf(ev) == SelectSeq(ev, LAMBDA e : e.hit)

\* /¬([01])/g
RECURSIVE NotScan(_, _)
NotScan(s, i) ==
  IF i > Len(s) THEN <<>>
  ELSE IF s[i] = NOT /\ i + 1 <= Len(s) /\ s[i + 1] \in Digits
       THEN <<Hit(<<s[i], s[i + 1]>>, Bit(operators(NOT, s[i + 1] = "1", FALSE)))>>
            \o NotScan(s, i + 2)
       ELSE <<Copy(s[i])>> \o NotScan(s, i + 1)

\* new RegExp(`([01])\\${operator}([01])`, 'g')
RECURSIVE BinScan(_, _, _)
BinScan(s, op, i) ==
  IF i > Len(s) THEN <<>>
  ELSE IF i + 2 <= Len(s) /\ s[i] \in Digits /\ s[i + 1] = op /\ s[i + 2] \in Digits
       THEN <<Hit(<<s[i], s[i + 1], s[i + 2]>>,
                  Bit(operators(op, s[i] = "1", s[i + 2] = "1")))>>
            \o BinScan(s, op, i + 3)
       ELSE <<Copy(s[i])>> \o BinScan(s, op, i + 1)

\* result.match(regex): the regular expression of op matches somewhere
BinMatches(s, op) == \E e \in {BinScan(s, op, 1)[n] : n \in 1..Len(BinScan(s, op, 1))} : e.hit


(***************************************************************************)
(* extractVariables.                                                       *)
(***************************************************************************)
\* the UTF-16 code unit of a variable symbol, the order Array.prototype.sort uses
CodeUnit(c) ==
  CASE c = "p" -> 112
    [] c = "q" -> 113
    [] c = "r" -> 114
    [] c = "x" -> 120
    [] c = "y" -> 121
    [] c = "z" -> 122

\* [...new Set(a)]: the first occurrence of every element, in order
RECURSIVE SetOf(_)
SetOf(a) ==
  IF a = <<>> THEN <<>>
  ELSE LET front == SetOf(SubSeq(a, 1, Len(a) - 1))
           last == a[Len(a)]
       IN  IF Includes(front, last) THEN front ELSE Append(front, last)

\* a.sort() without a comparator: ascending code units
RECURSIVE sortByCodeUnit(_)
sortByCodeUnit(a) ==
  IF a = <<>> THEN <<>>
  ELSE LET m == CHOOSE i \in 1..Len(a) : \A j \in 1..Len(a) : CodeUnit(a[i]) <= CodeUnit(a[j])
       IN  <<a[m]>> \o sortByCodeUnit(SubSeq(a, 1, m - 1) \o SubSeq(a, m + 1, Len(a)))

\* the variables in the order of their first occurrence in the expression
extractVariablesMutNoSort(e) ==
  LET occurring == {v \in VarSet : Includes(e, v)}
      firstAt(v) == CHOOSE i \in 1..Len(e) : e[i] = v /\ \A j \in 1..(i - 1) : e[j] # v
      RECURSIVE byFirst(_)
      byFirst(S) ==
        IF S = {} THEN <<>>
        ELSE LET v == CHOOSE w \in S : \A u \in S : firstAt(w) <= firstAt(u)
             IN  <<v>> \o byFirst(S \ {v})
  IN  byFirst(occurring)

\* line 61
extractVariables(e) ==
  sortByCodeUnit(SetOf(SelectSeq(variablesList, LAMBDA v : Includes(e, v))))

(***************************************************************************)
(* Absent and empty arguments.                                             *)
(***************************************************************************)
\* an expression that was not given (undefined or null): no string at all
Absent == <<"undefined">>

\* a test that lets every expression through
FalsyMutNever(e) == FALSE

\* !expression: true of the empty string and of an absent expression
Falsy(e) == e = <<>> \/ e = Absent

(***************************************************************************)
(* validateExpression.                                                     *)
(***************************************************************************)
\* the running parenthesesCount after the first n characters
RECURSIVE parenthesesCount(_, _)
parenthesesCount(e, n) ==
  IF n = 0 THEN 0
  ELSE parenthesesCount(e, n - 1)
       + (IF e[n] = LP THEN 1 ELSE 0) - (IF e[n] = RP THEN 1 ELSE 0)

\* the validation without the test of the running count inside the loop
validateExpressionMutNoPrefix(e) ==
  /\ ~Falsy(e)
  /\ parenthesesCount(e, Len(e)) = 0
  /\ ~ \E i \in 1..(Len(e) - 1) : e[i] \in BinOps /\ e[i + 1] \in BinOps
  /\ e[1] \notin BinOps
  /\ e[Len(e)] \notin BinOps \cup {NOT}

\* lines 283-383
validateExpression(e) ==
  /\ ~Falsy(e)
  /\ \A n \in 1..Len(e) : parenthesesCount(e, n) >= 0
  /\ parenthesesCount(e, Len(e)) = 0
  /\ ~ \E i \in 1..(Len(e) - 1) : e[i] \in BinOps /\ e[i + 1] \in BinOps
  /\ e[1] \notin BinOps
  /\ e[Len(e)] \notin BinOps \cup {NOT}

(***************************************************************************)
(* Step lists.  A list that was not requested is null.                     *)
(***************************************************************************)
NullSteps == [isNull |-> TRUE, items |-> <<>>]

EmptySteps == [isNull |-> FALSE, items |-> <<>>]

\* unshift in the place of push: the new steps go to the front
PushAllMutPrepend(st, xs) == IF st.isNull THEN st ELSE [st EXCEPT !.items = xs \o @]

\* if (steps) steps.push(...) for each element of xs
PushAll(st, xs) == IF st.isNull THEN st ELSE [st EXCEPT !.items = @ \o xs]

VF(b) == IF b THEN "V" ELSE "F"

operatorNames(op) ==
  CASE op = AND -> "AND"
    [] op = OR -> "OR"
    [] op = NAND -> "NAND"
    [] op = NOR -> "NOR"
    [] op = XOR -> "XOR"
    [] op = XNOR -> "BICONDICIONAL"
    [] op = IMP -> "IMPLICACION"

\* the step pushed for a match of the NOT pattern
NotStep(e) ==
  [operation |-> e.m,
   description |-> <<NOT, VF(e.m[2] = "1"), "=", VF(e.r = "1")>>,
   result |-> e.r]

\* the step pushed for a match of a binary operator's pattern
BinStep(e) ==
  [operation |-> e.m,
   description |-> <<VF(e.m[1] = "1"), e.m[2], VF(e.m[3] = "1"), "=", VF(e.r = "1"),
                     operatorNames(e.m[2])>>,
   result |-> e.r]

\* the steps one replace of the NOT pattern pushes
NotStepsOf(ev) == LET h == HitsOf(ev) IN [n \in 1..Len(h) |-> NotStep(h[n])]

\* the steps one replace of a binary operator's pattern pushes
BinStepsOf(ev) == LET h == HitsOf(ev) IN [n \in 1..Len(h) |-> BinStep(h[n])]

(***************************************************************************)
(* Substitution: result.replace(new RegExp(`\\b${variable}\\b`, 'g'), d).  *)
(***************************************************************************)
\* a pattern without its \\b: the variable is replaced wherever it stands
BoundaryMutNone(s, i) == TRUE

\* a word boundary lies between positions i-1 and i of s
Boundary(s, i) ==
  LET before == i > 1 /\ IsWordChar(s[i - 1])
      after == i <= Len(s) /\ IsWordChar(s[i])
  IN  before # after

Substitute(s, variable, value) ==
  [i \in 1..Len(s) |->
     IF s[i] = variable /\ Boundary(s, i) /\ Boundary(s, i + 1) THEN Bit(value) ELSE s[i]]

(***************************************************************************)
(* The parenthesis pattern /\(([^()]+)\)/g.                                *)
(***************************************************************************)
SetMin(S) == CHOOSE m \in S : \A n \in S : m <= n

\* the index of the ')' closing a match that starts at i, or 0
ParenEnd(s, i) ==
  IF s[i] # LP THEN 0
  ELSE LET js == {j \in (i + 1)..Len(s) : s[j] \in {LP, RP}}
       IN  IF js = {} THEN 0
           ELSE LET j == SetMin(js)
                IN  IF s[j] = RP /\ j > i + 1 THEN j ELSE 0

\* the start of the first match at or after from, or 0
NextParen(s, from) ==
  LET is == {i \in from..Len(s) : ParenEnd(s, i) # 0}
  IN  IF is = {} THEN 0 ELSE SetMin(is)


(***************************************************************************)
(* The inputs.                                                             *)
(***************************************************************************)
\* all strings of at most n characters of A
StringsOver(A, n) ==
  LET RECURSIVE OfLength(_)
      OfLength(m) ==
        IF m = 0 THEN {<<>>} ELSE {Append(s, c) : s \in OfLength(m - 1), c \in A}
  IN  UNION {OfLength(m) : m \in 0..n}

\* the characters of the exhaustive family of expressions
GenAlphabet == {"p", "q", NOT, AND, IMP, LP, RP, SP}

\* 'p op q', written as in the documentation
DocBinary(op) == <<"p", SP, op, SP, "q">>

\* 'p op q' without the spaces
TightBinary(op) == <<"p", op, "q">>

\* '¬p'
DocNot == <<NOT, "p">>

\* 'p ∧ (q ∨ r)'
DocNested == <<"p", SP, AND, SP, LP, "q", SP, OR, SP, "r", RP>>

\* a variable, or a negated variable
Lit(v, negated) == IF negated THEN <<NOT, v>> ELSE <<v>>

\* x op1 y op2 z over p, q, r
Triple(n1, op1, n2, op2, n3) ==
  Lit("p", n1) \o <<op1>> \o Lit("q", n2) \o <<op2>> \o Lit("r", n3)

Triples ==
  {Triple(n[1], op1, n[2], op2, n[3]) : n \in [1..3 -> BOOLEAN], op1 \in BinOps, op2 \in BinOps}

\* longest chain v1 op v2 op ... op vk
MaxChain == 4

chainVars == <<"p", "q", "r", "x", "y", "z">>

RECURSIVE Chain(_, _)
Chain(op, n) ==
  IF n = 1 THEN <<chainVars[1]>> ELSE Chain(op, n - 1) \o <<op, chainVars[n]>>

Chains == {Chain(op, n) : op \in BinOps, n \in 2..MaxChain}

Wrap(e) == <<LP>> \o e \o <<RP>>

\* pairs <<expression, the same with redundant parentheses>>
RedundantPairs ==
  \* a single variable or a negated variable, once or twice
  {<<Lit("p", n) \o <<op, "q">>, Wrap(Lit("p", n)) \o <<op, "q">>>> : n \in BOOLEAN, op \in BinOps}
  \cup {<<Lit("p", n) \o <<op, "q">>, Wrap(Wrap(Lit("p", n))) \o <<op, "q">>>> :
          n \in BOOLEAN, op \in BinOps}
  \cup {<<<<"p", op>> \o Lit("q", n), <<"p", op>> \o Wrap(Lit("q", n))>> :
          n \in BOOLEAN, op \in BinOps}
  \cup {<<<<NOT, "p">>, <<NOT>> \o Wrap(<<"p">>)>>, <<<<NOT, "p">>, <<NOT>> \o Wrap(Wrap(<<"p">>))>>,
        <<<<"p">>, Wrap(<<"p">>)>>, <<<<NOT, "p">>, Wrap(<<NOT, "p">>)>>}
  \* the whole expression
  \cup {<<TightBinary(op), Wrap(TightBinary(op))>> : op \in BinOps}
  \cup {<<TightBinary(op), Wrap(Wrap(TightBinary(op)))>> : op \in BinOps}
  \cup {<<Chain(op, 3), Wrap(Chain(op, 3))>> : op \in BinOps}
  \* the group that is evaluated first: the operator earlier in operatorOrder,
  \* the leftmost one among equals
  \cup {<<Triple(FALSE, operatorOrder[a], FALSE, operatorOrder[b], FALSE),
          IF a <= b
          THEN Wrap(TightBinary(operatorOrder[a])) \o <<operatorOrder[b], "r">>
          ELSE <<"p", operatorOrder[a]>> \o Wrap(<<"q", operatorOrder[b], "r">>)>> :
          a \in 1..Len(operatorOrder), b \in 1..Len(operatorOrder)}
  \cup {<<Chain(op, n), Wrap(Chain(op, 2)) \o SubSeq(Chain(op, n), 4, 2 * n - 1)>> :
          op \in BinOps, n \in 3..MaxChain}

\* the assignments that give a value to every variable of vs, in the order of vs
AssignmentsOver(vs) ==
  LET RECURSIVE UpTo(_)
      UpTo(m) ==
        IF m = 0 THEN {<<>>}
        ELSE {Append(v, <<vs[m], b>>) : v \in UpTo(m - 1), b \in BOOLEAN}
  IN  UpTo(Len(vs))

TotalAssignments(e) == AssignmentsOver(extractVariables(e))

Call(e, v, t) == [expression |-> e, values |-> v, includeSteps |-> t]

\* one call for every expression of E, every total assignment and every trace flag of T
Single(E, T) ==
  {<<Call(x[1], x[2], t)>> :
     x \in UNION {{<<e, v>> : v \in TotalAssignments(e)} : e \in E}, t \in T}

\* two calls, on the two expressions of a pair, with the same assignment
Paired(P) ==
  UNION {{<<Call(pr[1], v, FALSE), Call(pr[2], v, FALSE)>> : v \in TotalAssignments(pr[1])} :
           pr \in P}

\* calls without an expression, with assignments of zero, one and two entries
EmptyCalls ==
  {<<Call(e, v, t)>> :
     e \in {<<>>, Absent},
     v \in AssignmentsOver(<<>>) \cup AssignmentsOver(<<"p">>) \cup AssignmentsOver(<<"p", "q">>),
     t \in BOOLEAN}

\* the expressions of the sessions of two calls on one expression
FrameExprs ==
  {TightBinary(op) : op \in BinOps}
  \cup {DocBinary(AND), DocNot, DocNested, <<"p">>, <<"p", "q">>, <<"p", SP, "q">>,
        Wrap(TightBinary(OR)) \o <<IMP, NOT, "p">>}

InsertAt(v, n, entry) == SubSeq(v, 1, n - 1) \o <<entry>> \o SubSeq(v, n, Len(v))

\* the variables of the alphabet that do not occur in e
Unused(e) == SelectSeq(variablesList, LAMBDA u : ~Includes(e, u))

\* v with an entry for a variable that does not occur in e, at every place and
\* with both values; and v between two such entries
Extensions(e, v) ==
  {InsertAt(v, n, <<Unused(e)[1], b>>) : n \in 1..(Len(v) + 1), b \in BOOLEAN}
  \cup {<<<<Unused(e)[2], TRUE>>>> \o v \o <<<<Unused(e)[1], FALSE>>>>}

\* two traced calls on one expression, the second with more entries
Extended(E) ==
  UNION {UNION {{<<Call(e, v, TRUE), Call(e, w, TRUE)>> : w \in Extensions(e, v)} :
                  v \in TotalAssignments(e)} : e \in E}

Perms(n) == {f \in [1..n -> 1..n] : \A a \in 1..n, b \in 1..n : a # b => f[a] # f[b]}

\* two traced calls on one expression, the entries of the second in another order
Permuted(E) ==
  UNION {UNION {{<<Call(e, v, TRUE), Call(e, [m \in 1..Len(v) |-> v[f[m]]], TRUE)>> :
                   f \in Perms(Len(v))} : v \in TotalAssignments(e)} : e \in E}

\* the same traced call twice
Repeated(E) == {<<c[1], c[1]>> : c \in Single(E, {TRUE})}

\* expressions whose traces hold steps of two operators, of a negation and an
\* operator, and of a group inside a group
TracedExprs ==
  {Triple(FALSE, op1, FALSE, op2, FALSE) : op1 \in BinOps, op2 \in BinOps}
  \cup {Triple(TRUE, IMP, FALSE, AND, TRUE),
        <<NOT>> \o Wrap(<<NOT, "p", IMP, "q", AND, "r">>) \o <<OR, NOT, "q">>,
        Wrap(Wrap(<<"p", AND, "q">>) \o <<OR, "r">>) \o <<IMP, "p">>}

\* the longest run of negations
MaxNeg == 4

RECURSIVE Negations(_)
Negations(n) == IF n = 0 THEN <<>> ELSE <<NOT>> \o Negations(n - 1)

\* one to MaxNeg negations before a variable and before a group
Stacked ==
  {Negations(n) \o e :
     n \in 1..MaxNeg, e \in {<<"p">>, Wrap(<<"p">>), Wrap(<<"p", AND, "q">>)}}

\* the assignments that leave out at least one variable of e
PartialAssignments(e) ==
  LET vs == extractVariables(e)
      all == {vs[n] : n \in 1..Len(vs)}
  IN  UNION {AssignmentsOver(SelectSeq(vs, LAMBDA u : u \in S)) : S \in (SUBSET all) \ {all}}

\* one call for every expression of E and every assignment with a variable missing
Partial(E) ==
  UNION {{<<Call(e, v, FALSE)>> : v \in PartialAssignments(e)} : e \in E}

PartialExprs ==
  {TightBinary(op) : op \in BinOps}
  \cup {<<"p">>, <<NOT, "p">>, <<NOT, NOT, "p">>, Wrap(<<"p">>), <<NOT>> \o Wrap(<<"p">>),
        Wrap(<<"p">>) \o <<IMP, "q">>, <<"p", OR>> \o Wrap(<<"q">>),
        <<NOT>> \o Wrap(TightBinary(AND)), Wrap(TightBinary(OR)) \o <<AND, "r">>}

Sessions ==
  Single(StringsOver(GenAlphabet, MaxLen), BOOLEAN)
  \cup Single({DocBinary(op) : op \in BinOps} \cup {TightBinary(op) : op \in BinOps}
              \cup {DocNot, DocNested}, BOOLEAN)
  \cup Single(Triples \cup Chains, {FALSE})
  \cup Paired(RedundantPairs)
  \cup EmptyCalls
  \cup Extended(FrameExprs)
  \cup Permuted(FrameExprs)
  \cup Repeated(FrameExprs)
  \cup Single(TracedExprs, {TRUE})
  \cup Single(Stacked, {FALSE})
  \cup Partial(PartialExprs)

(***************************************************************************)
(* The state of a caller running evaluateExpression, one call after the    *)
(* other.                                                                  *)
(***************************************************************************)
VARIABLES
  calls,              \* the calls of the caller: <<[expression, values, includeSteps], ...>>
  returned,           \* the values returned so far, one per finished call
  pc,                 \* where the running call stands
  expression,         \* parameter: the expression
  values,             \* parameter: Object.entries(values), <<variable, value>> pairs
  includeSteps,       \* parameter
  result,             \* evaluateExpression: let result
  steps,              \* evaluateExpression: const steps
  substitutionSteps,  \* evaluateExpression: const substitutionSteps
  k,                  \* the index of the forEach over Object.entries(values)
  oldResult,          \* parenthesis loop: const oldResult
  pos,                \* parenthesis pass: where the scan of oldResult stands
  out,                \* parenthesis pass: the replaced string built so far
  matchEnd,           \* parenthesis pass: the end of the match being replaced
  subExpr,            \* evaluateSubExpression: the parameter expr
  sub,                \* evaluateSubExpression: let result
  subSteps,           \* evaluateSubExpression: the parameter steps
  caller,             \* evaluateSubExpression: called from "paren" or "final"
  opIdx               \* evaluateSubExpression: the index into operatorOrder

evalVars ==
  <<calls, returned, pc, expression, values, includeSteps, result, steps,
    substitutionSteps, k, oldResult, pos, out, matchEnd, subExpr, sub, subSteps,
    caller, opIdx>>

\* the locals of evaluateSubExpression when it is not running
NoSub ==
  /\ subExpr' = <<>>
  /\ sub' = <<>>
  /\ subSteps' = NullSteps
  /\ caller' = "none"
  /\ opIdx' = 0

\* the locals of a parenthesis pass when none is running
NoPass ==
  /\ oldResult' = <<>>
  /\ pos' = 0
  /\ out' = <<>>
  /\ matchEnd' = 0

\* the locals of evaluateExpression when it is not running
NoCall ==
  /\ expression' = <<>>
  /\ values' = <<>>
  /\ includeSteps' = FALSE
  /\ result' = <<>>
  /\ steps' = NullSteps
  /\ substitutionSteps' = NullSteps
  /\ k' = 0

\* one steps array allocated once and shared by all the calls
NewArrayMutShared(flag) ==
  IF flag
  THEN [isNull |-> FALSE,
        items |-> IF returned = <<>> THEN <<>> ELSE returned[Len(returned)].steps]
  ELSE NullSteps

\* line 289: includeSteps ? [] : null, a fresh array for every call
NewArray(flag) == IF flag THEN EmptySteps ELSE NullSteps

(***************************************************************************)
(* The caller makes its next call (its first one fixes what it evaluates), *)
(* and evaluateExpression, lines 275-302: entry, the empty expression, the *)
(* step lists and the step of the original expression.                     *)
(***************************************************************************)
Enter ==
  /\ pc = "idle"
  /\ \E session \in (IF calls = <<>> THEN Sessions ELSE {calls}) :
       /\ Len(returned) < Len(session)
       /\ calls' = session
       /\ LET call == session[Len(returned) + 1]
          IN  IF Falsy(call.expression)
              THEN /\ returned' = Append(returned, [result |-> FALSE, steps |-> <<>>])
                   /\ pc' = "idle"
                   /\ NoCall
              ELSE /\ expression' = call.expression
                   /\ values' = call.values
                   /\ includeSteps' = call.includeSteps
                   /\ result' = call.expression
                   /\ steps' = NewArray(call.includeSteps)
                   /\ substitutionSteps' =
                        IF call.includeSteps
                        THEN PushAll(EmptySteps,
                                     <<[operation |-> <<"Expresion original">>,
                                        description |-> call.expression,
                                        result |-> call.expression]>>)
                        ELSE NullSteps
                   /\ k' = 1
                   /\ pc' = "subst"
                   /\ UNCHANGED returned
  /\ NoPass
  /\ NoSub

\* a step for every entry, whether it replaced something or not
SubstitutedMutAlways(old, new) == TRUE

\* line 319: oldResult !== result
Substituted(old, new) == old # new

\* an iteration that replaces in the expression as it was given, and so undoes
\* the iterations before it
SubstituteEntryMutFromOriginal ==
  /\ pc = "subst"
  /\ k <= Len(values)
  /\ LET variable == values[k][1]
         value == values[k][2]
         new == Substitute(expression, variable, value)
     IN  /\ result' = new
         /\ substitutionSteps' =
              IF includeSteps /\ Substituted(result, new)
              THEN PushAll(substitutionSteps,
                           <<[operation |-> <<"Sustitucion: ", variable>>,
                              description |-> <<variable, "=", VF(value)>>,
                              result |-> new]>>)
              ELSE substitutionSteps
  /\ k' = k + 1
  /\ UNCHANGED <<calls, returned, pc, expression, values, includeSteps, steps,
                 oldResult, pos, out, matchEnd, subExpr, sub, subSteps, caller, opIdx>>

(***************************************************************************)
(* Lines 309-327: one iteration of the forEach over the entries.           *)
(***************************************************************************)
SubstituteEntry ==
  /\ pc = "subst"
  /\ k <= Len(values)
  /\ LET variable == values[k][1]
         value == values[k][2]
         new == Substitute(result, variable, value)
     IN  /\ result' = new
         /\ substitutionSteps' =
              IF includeSteps /\ Substituted(result, new)
              THEN PushAll(substitutionSteps,
                           <<[operation |-> <<"Sustitucion: ", variable>>,
                              description |-> <<variable, "=", VF(value)>>,
                              result |-> new]>>)
              ELSE substitutionSteps
  /\ k' = k + 1
  /\ UNCHANGED <<calls, returned, pc, expression, values, includeSteps, steps,
                 oldResult, pos, out, matchEnd, subExpr, sub, subSteps, caller, opIdx>>

(***************************************************************************)
(* Lines 333-339: the step showing the substituted expression.             *)
(***************************************************************************)
RecordSubstituted ==
  /\ pc = "subst"
  /\ k > Len(values)
  /\ steps' = IF includeSteps
              THEN PushAll(steps,
                           <<[operation |-> <<"Sustitucion de variables">>,
                              description |-> <<"Expresion con valores: ">> \o result,
                              result |-> result]>>)
              ELSE steps
  /\ pc' = "parenTest"
  /\ UNCHANGED <<calls, returned, expression, values, includeSteps, result,
                 substitutionSteps, k, oldResult, pos, out, matchEnd, subExpr, sub,
                 subSteps, caller, opIdx>>

(***************************************************************************)
(* Line 346: while (result.includes('(')), and line 347.                   *)
(***************************************************************************)
ParenTest ==
  /\ pc = "parenTest"
  /\ IF Includes(result, LP)
     THEN /\ oldResult' = result
          /\ pos' = 1
          /\ pc' = "parenScan"
     ELSE /\ pc' = "finalCall"
          /\ UNCHANGED <<oldResult, pos>>
  /\ UNCHANGED <<calls, returned, expression, values, includeSteps, result, steps,
                 substitutionSteps, k, out, matchEnd, subExpr, sub, subSteps, caller,
                 opIdx>>

\* the parenthesis loop without its break
ParenLoopBreakMutNever(old, new) == FALSE

\* line 373: if (oldResult === result) break
ParenLoopBreak(old, new) == old = new

(***************************************************************************)
(* Line 351: the replace scans oldResult for the next innermost group and  *)
(* calls the callback on it (lines 353-356), or ends the pass (line 373).  *)
(***************************************************************************)
ParenScan ==
  /\ pc = "parenScan"
  /\ LET i == NextParen(oldResult, pos)
     IN  IF i # 0
         THEN LET j == ParenEnd(oldResult, i)
              IN  /\ out' = out \o SubSeq(oldResult, pos, i - 1)
                  /\ matchEnd' = j
                  /\ pos' = i
                  /\ subExpr' = SubSeq(oldResult, i + 1, j - 1)
                  /\ sub' = SubSeq(oldResult, i + 1, j - 1)
                  /\ subSteps' = IF includeSteps THEN EmptySteps ELSE NullSteps
                  /\ caller' = "paren"
                  /\ opIdx' = 1
                  /\ pc' = "subNot"
                  /\ UNCHANGED <<result, oldResult>>
         ELSE LET new == out \o SubSeq(oldResult, pos, Len(oldResult))
              IN  /\ result' = new
                  /\ pc' = IF ParenLoopBreak(oldResult, new) THEN "finalCall" ELSE "parenTest"
                  /\ NoPass
                  /\ UNCHANGED <<subExpr, sub, subSteps, caller, opIdx>>
  /\ UNCHANGED <<calls, returned, expression, values, includeSteps, steps,
                 substitutionSteps, k>>

(***************************************************************************)
(* Line 380: the call of evaluateSubExpression on the flat string.  The    *)
(* callee pushes onto the caller's steps array.                            *)
(***************************************************************************)
FinalCall ==
  /\ pc = "finalCall"
  /\ subExpr' = result
  /\ sub' = result
  /\ subSteps' = steps
  /\ caller' = "final"
  /\ opIdx' = 1
  /\ pc' = "subNot"
  /\ UNCHANGED <<calls, returned, expression, values, includeSteps, result, steps,
                 substitutionSteps, k, oldResult, pos, out, matchEnd>>


(***************************************************************************)
(* evaluateSubExpression, lines 163-188: the NOT loop.                     *)
(***************************************************************************)
\* the NOT loop without its break
NotLoopBreakMutNever(prevResult, new) == FALSE

\* a single replace in the place of the loop
NotLoopBreakMutAlways(prevResult, new) == TRUE

\* line 187: if (prevResult === result) break

NotLoopBreak(prevResult, new) == prevResult = new

\* line 163: while (result.includes('¬'))
SubNotTest ==
  /\ pc = "subNot"
  /\ pc' = IF Includes(sub, NOT) THEN "subNotPass" ELSE "subBin"
  /\ UNCHANGED <<calls, returned, expression, values, includeSteps, result, steps,
                 substitutionSteps, k, oldResult, pos, out, matchEnd, subExpr, sub,
                 subSteps, caller, opIdx>>

\* lines 164-187: the body of the loop, one global replace and the break
SubNotPass ==
  /\ pc = "subNotPass"
  /\ LET ev == NotScan(sub, 1)
         new == OutOf(ev)
     IN  /\ sub' = new
         /\ subSteps' = PushAll(subSteps, NotStepsOf(ev))
         /\ pc' = IF NotLoopBreak(sub, new) THEN "subBin" ELSE "subNot"
  /\ UNCHANGED <<calls, returned, expression, values, includeSteps, result, steps,
                 substitutionSteps, k, oldResult, pos, out, matchEnd, subExpr, caller,
                 opIdx>>

(***************************************************************************)
(* Lines 209-242: the loop over operatorOrder.  One step is one iteration  *)
(* of the while loop of the first operator, from opIdx on, whose pattern   *)
(* matches; the operators before it are skipped by their while tests.      *)
(***************************************************************************)
\* line 240: if (prevResult === result) break
BinLoopBreak(prevResult, new) == prevResult = new

SubBin ==
  /\ pc = "subBin"
  /\ LET cands == {n \in opIdx..Len(operatorOrder) : BinMatches(sub, operatorOrder[n])}
     IN  IF cands = {}
         THEN /\ opIdx' = Len(operatorOrder) + 1
              /\ pc' = "subReturn"
              /\ UNCHANGED <<sub, subSteps>>
         ELSE LET n == SetMin(cands)
                  ev == BinScan(sub, operatorOrder[n], 1)
                  new == OutOf(ev)
              IN  /\ sub' = new
                  /\ subSteps' = PushAll(subSteps, BinStepsOf(ev))
                  /\ opIdx' = IF BinLoopBreak(sub, new) THEN n + 1 ELSE n
                  /\ pc' = "subBin"
  /\ UNCHANGED <<calls, returned, expression, values, includeSteps, result, steps,
                 substitutionSteps, k, oldResult, pos, out, matchEnd, subExpr, caller>>

\* line 245: return result === '1'
SubValue(s) == s = <<"1">>

(***************************************************************************)
(* Line 245 and the return into the parenthesis callback (lines 359-369).  *)
(***************************************************************************)
ReturnToParen ==
  /\ pc = "subReturn"
  /\ caller = "paren"
  /\ LET subResult == SubValue(sub)
         match == SubSeq(oldResult, pos, matchEnd)
     IN  /\ steps' = IF includeSteps
                     THEN PushAll(steps,
                                  <<[operation |-> <<"Evaluacion: ">> \o match,
                                     description |-> <<"Parentesis: ", VF(subResult)>>,
                                     result |-> Bit(subResult),
                                     subSteps |-> subSteps.items]>>)
                     ELSE steps
         /\ out' = Append(out, Bit(subResult))
  /\ pos' = matchEnd + 1
  /\ matchEnd' = 0
  /\ pc' = "parenScan"
  /\ NoSub
  /\ UNCHANGED <<calls, returned, expression, values, includeSteps, result,
                 substitutionSteps, k, oldResult>>

\* a return that carries the four fields whether the trace was asked for or not
ReturnResultMutAlwaysLists ==
  /\ pc = "subReturn"
  /\ caller = "final"
  /\ LET finalResult == SubValue(sub)
     IN  returned' =
           Append(returned,
                  [result |-> finalResult,
                   steps |-> subSteps.items,
                   substitutionSteps |-> substitutionSteps.items,
                   expression |-> expression])
  /\ pc' = "idle"
  /\ NoCall
  /\ NoPass
  /\ NoSub
  /\ UNCHANGED calls

(***************************************************************************)
(* Line 245 and the return of evaluateExpression (lines 380-395).          *)
(***************************************************************************)
ReturnResult ==
  /\ pc = "subReturn"
  /\ caller = "final"
  /\ LET finalResult == SubValue(sub)
     IN  returned' =
           Append(returned,
                  IF includeSteps
                  THEN [result |-> finalResult,
                        steps |-> subSteps.items,
                        substitutionSteps |-> substitutionSteps.items,
                        expression |-> expression]
                  ELSE [result |-> finalResult, steps |-> <<>>])
  /\ pc' = "idle"
  /\ NoCall
  /\ NoPass
  /\ NoSub
  /\ UNCHANGED calls


(***************************************************************************)
(* generateCombinations, lines 106-137.                                    *)
(***************************************************************************)
VARIABLES
  variables,      \* parameter: the list of variables
  combinations,   \* const combinations
  combination,    \* const combination
  i,              \* the row index
  j,              \* the bit position
  gpc             \* where generateCombinations stands

combVars == <<variables, combinations, combination, i, j, gpc>>

\* a & b on non-negative 32-bit integers
RECURSIVE BitAnd(_, _)
BitAnd(a, b) ==
  IF a = 0 \/ b = 0 THEN 0
  ELSE (a % 2) * (b % 2) + 2 * BitAnd(a \div 2, b \div 2)

\* 1 << n, for the shifts below the sign bit
ShiftLeft1(n) == 2 ^ n

\* Math.pow(2, numVariables)
totalRows == 2 ^ Len(variables)

\* the bit test negated
BitOfMutInverted(row, bit) == BitAnd(row, ShiftLeft1(bit)) = 0

\* line 129: !!(i & (1 << j))

BitOf(row, bit) == BitAnd(row, ShiftLeft1(bit)) # 0

\* lines 108-118: the locals and the start of the outer loop
GenStart ==
  /\ gpc = "call"
  /\ combinations' = <<>>
  /\ i' = 0
  /\ gpc' = "outer"
  /\ UNCHANGED <<variables, combination, j>>

\* lines 118-124: the test of the outer loop, a fresh combination, or the return
GenOuter ==
  /\ gpc = "outer"
  /\ IF i < totalRows
     THEN /\ combination' = <<>>
          /\ j' = Len(variables) - 1
          /\ gpc' = "inner"
     ELSE /\ gpc' = "done"
          /\ UNCHANGED <<combination, j>>
  /\ UNCHANGED <<variables, combinations, i>>

\* lines 124-133: one iteration of the inner loop, or the push of the row
GenInner ==
  /\ gpc = "inner"
  /\ IF j >= 0
     THEN /\ combination' = <<BitOf(i, j)>> \o combination
          /\ j' = j - 1
          /\ UNCHANGED <<combinations, i, gpc>>
     ELSE /\ combinations' = Append(combinations, combination)
          /\ i' = i + 1
          /\ gpc' = "outer"
          /\ UNCHANGED <<combination, j>>
  /\ UNCHANGED variables

(***************************************************************************)
(* A caller of extractVariables.                                           *)
(***************************************************************************)
VARIABLES
  xExpression,    \* the argument
  xResult,        \* the returned array
  xpc

extractVars == <<xExpression, xResult, xpc>>

ExtractCall ==
  /\ xpc = "call"
  /\ xResult' = extractVariables(xExpression)
  /\ xpc' = "done"
  /\ UNCHANGED xExpression

(***************************************************************************)
(* A caller of validateExpression.                                         *)
(***************************************************************************)
VARIABLES
  vExpression,    \* the argument
  vResult,        \* the returned boolean
  vpc

validateVars == <<vExpression, vResult, vpc>>

ValidateCall ==
  /\ vpc = "call"
  /\ vResult' = validateExpression(vExpression)
  /\ vpc' = "done"
  /\ UNCHANGED vExpression

(***************************************************************************)
(* gcd (mathUtils.js) and the class Fraction (logicOperations.js).  The     *)
(* numbers are integers in the range where the arithmetic of the source is *)
(* exact.                                                                  *)
(***************************************************************************)
\* largest absolute value of an argument of the constructor
MaxTerm == 3
\* largest numerator (in absolute value) and denominator the caller goes on with
MaxValue == 4

Terms == (-MaxTerm)..MaxTerm

\* the arguments as they are
AbsMutIdentity(x) == x

\* Math.abs
Abs(x) == IF x < 0 THEN -x ELSE x

\* lines 59-66: the loop of Euclid's algorithm
RECURSIVE Euclid(_, _)
Euclid(x, y) == IF y = 0 THEN x ELSE Euclid(y, x % y)

\* a divisor that is always 1
gcdMutOne(x, y) == 1

\* mathUtils.js, lines 53-67
gcd(x, y) == Euclid(Abs(x), Abs(y))

\* x / d, for a divisor d of x
Quotient(x, d) == IF x < 0 THEN -((-x) \div d) ELSE x \div d

\* throw new Error(message)
Thrown(message) == [ok |-> FALSE, error |-> message]

\* the object the constructor leaves
Made(n, d) == [ok |-> TRUE, value |-> [numerator |-> n, denominator |-> d]]

\* lines 244-275: the constructor
Fraction(numerator, denominator) ==
  IF denominator = 0 THEN Thrown("Denominator cannot be zero")
  ELSE LET n == IF denominator < 0 THEN -numerator ELSE numerator
           d == IF denominator < 0 THEN -denominator ELSE denominator
           divisor == gcd(Abs(n), Abs(d))
       IN  Made(Quotient(n, divisor), Quotient(d, divisor))

\* lines 427-430
simplify(this) ==
  LET divisor == gcd(Abs(this.numerator), this.denominator)
  IN  Fraction(Quotient(this.numerator, divisor), Quotient(this.denominator, divisor))

\* new Fraction(n, d).simplify(): an exception of the constructor goes through
Simplified(made) == IF made.ok THEN simplify(made.value) ELSE made

\* lines 321-326
add(this, other) ==
  Simplified(Fraction(this.numerator * other.denominator + other.numerator * this.denominator,
                      this.denominator * other.denominator))

\* lines 339-344
subtract(this, other) ==
  Simplified(Fraction(this.numerator * other.denominator - other.numerator * this.denominator,
                      this.denominator * other.denominator))

\* lines 357-362
multiply(this, other) ==
  Simplified(Fraction(this.numerator * other.numerator,
                      this.denominator * other.denominator))

\* a test of the denominator of the divisor instead of its numerator
DivisionByZeroMutDenominator(other) == other.denominator = 0

\* line 378: other.numerator === 0
DivisionByZero(other) == other.numerator = 0

\* lines 376-387
divide(this, other) ==
  IF DivisionByZero(other) THEN Thrown("Division by zero")
  ELSE Simplified(Fraction(this.numerator * other.denominator,
                           this.denominator * other.numerator))

\* lines 402-404
negate(this) == Fraction(-this.numerator, this.denominator)

\* lines 415-417
abs(this) == Fraction(Abs(this.numerator), this.denominator)

(***************************************************************************)
(* A caller that holds two fractions and goes on computing with them.      *)
(***************************************************************************)
VARIABLES
  fa,             \* the caller's fraction a
  fb,             \* the caller's fraction b
  fnew,           \* the fraction the last call produced: <<>> or <<fraction>>
  ferr,           \* the message of the error the last call threw, or "none"
  fop             \* the last call

fractionVars == <<fa, fb, fnew, ferr, fop>>

\* the fractions the caller goes on with
InRange(f) == Abs(f.numerator) <= MaxValue /\ f.denominator <= MaxValue

\* the call returns a fraction or throws; a and b are not assigned to
Outcome(made, name) ==
  /\ made.ok => InRange(made.value)
  /\ fnew' = IF made.ok THEN <<made.value>> ELSE <<>>
  /\ ferr' = IF made.ok THEN "none" ELSE made.error
  /\ fop' = name
  /\ UNCHANGED <<fa, fb>>

FNewCall(n, d) == Outcome(Fraction(n, d), "new")

FNew == \E n \in Terms, d \in Terms : FNewCall(n, d)

FAdd == Outcome(add(fa, fb), "add")

FSubtract == Outcome(subtract(fa, fb), "subtract")

FMultiply == Outcome(multiply(fa, fb), "multiply")

FDivide == Outcome(divide(fa, fb), "divide")

FNegate == Outcome(negate(fa), "negate")

FAbs == Outcome(abs(fa), "abs")

FSimplify == Outcome(simplify(fa), "simplify")

\* the caller keeps the fraction produced as its a or as its b
FAssign ==
  /\ fnew # <<>>
  /\ \/ fa' = fnew[1] /\ UNCHANGED fb
     \/ fb' = fnew[1] /\ UNCHANGED fa
  /\ fnew' = <<>>
  /\ ferr' = "none"
  /\ fop' = "assign"

(***************************************************************************)
(* A caller of gcd, and gcd step by step (mathUtils.js, lines 53-67).      *)
(***************************************************************************)
\* largest absolute value of an argument of gcd
MaxGcd == 12

\* x % y of JavaScript: the remainder has the sign of the dividend
JsRem(x, y) ==
  LET m == IF y < 0 THEN -y ELSE y
  IN  IF x < 0 THEN -((-x) % m) ELSE x % m

VARIABLES
  gCalls,         \* the calls of the caller: <<<<a, b>>, ...>>
  gReturned,      \* the values returned so far
  ga,             \* gcd: a
  gb,             \* gcd: b
  gcdpc

gcdVars == <<gCalls, gReturned, ga, gb, gcdpc>>

\* lines 53-56: entry, the absolute values
GcdEnter ==
  /\ gcdpc = "idle"
  /\ Len(gReturned) < Len(gCalls)
  /\ ga' = Abs(gCalls[Len(gReturned) + 1][1])
  /\ gb' = Abs(gCalls[Len(gReturned) + 1][2])
  /\ gcdpc' = "loop"
  /\ UNCHANGED <<gCalls, gReturned>>

\* lines 59-63: one iteration of while (b)
GcdIterate ==
  /\ gcdpc = "loop"
  /\ gb # 0
  /\ LET temp == gb
     IN  /\ gb' = JsRem(ga, gb)
         /\ ga' = temp
  /\ UNCHANGED <<gCalls, gReturned, gcdpc>>

\* line 66: return a
GcdReturn ==
  /\ gcdpc = "loop"
  /\ gb = 0
  /\ gReturned' = Append(gReturned, ga)
  /\ ga' = 0
  /\ gb' = 0
  /\ gcdpc' = "idle"
  /\ UNCHANGED gCalls

(***************************************************************************)
(* createVariableMap, lines 154-160, and a caller that builds the rows of  *)
(* a truth table: extractVariables, generateCombinations on its result,    *)
(* and createVariableMap on every row.                                     *)
(***************************************************************************)
\* every variable gets the value of slot 0
createVariableMapMutFirstSlot(vs, vals) == [v \in {vs[n] : n \in 1..Len(vs)} |-> vals[1]]

\* map[variable] = values[index] for every index: the last index of a variable
\* decides, and an index past the end of values gives undefined
createVariableMap(vs, vals) ==
  [v \in {vs[n] : n \in 1..Len(vs)} |->
     LET index == CHOOSE n \in 1..Len(vs) :
                    vs[n] = v /\ \A m \in (n + 1)..Len(vs) : vs[m] # v
     IN  IF index <= Len(vals) THEN vals[index] ELSE "undefined"]

VARIABLES
  tMaps,          \* the objects returned by createVariableMap, one per row
  tpc

pipeVars == <<tMaps, tpc>>

\* generateCombinations(extractVariables(e)): the call on the returned array
PipeGenerate ==
  /\ tpc = "extract"
  /\ xpc = "done"
  /\ variables' = xResult
  /\ gpc' = "call"
  /\ tpc' = "rows"
  /\ UNCHANGED <<combinations, combination, i, j, tMaps>>

\* createVariableMap(extractVariables(e), row) on the next row
PipeMap ==
  /\ tpc = "rows"
  /\ gpc = "done"
  /\ IF Len(tMaps) < Len(combinations)
     THEN /\ tMaps' = Append(tMaps, createVariableMap(xResult, combinations[Len(tMaps) + 1]))
          /\ UNCHANGED tpc
     ELSE /\ tpc' = "done"
          /\ UNCHANGED tMaps

(***************************************************************************)
(* Two evaluations of evaluateExpression whose steps interleave.  The      *)
(* locals of a call are a record of its own; the arrays it allocates live  *)
(* in one heap, where a step list is known by its address (0 is null).     *)
(***************************************************************************)
VARIABLES
  th,             \* the locals of the two calls
  heap            \* the arrays allocated so far

threadVars == <<th, heap>>

\* one array of the module, handed to every evaluation
NewArrayAtMutModuleLevel(h) == 1

\* lines 289, 290 and 353: [] is a new array at every evaluation
NewArrayAt(h) == Len(h) + 1

\* line 275: a call before its first step
NewThread(call) ==
  [pc |-> "call", expression |-> call.expression, values |-> call.values,
   includeSteps |-> call.includeSteps, result |-> <<>>, steps |-> 0,
   substitutionSteps |-> 0, k |-> 0, oldResult |-> <<>>, pos |-> 0, out |-> <<>>,
   matchEnd |-> 0, subExpr |-> <<>>, sub |-> <<>>, subSteps |-> 0, caller |-> "none",
   opIdx |-> 0, ret |-> <<>>, trail |-> <<>>]

\* a traced return whose expression field is the working string
ReturnValueMutWorkingString(s) ==
  IF s.includeSteps
  THEN [result |-> SubValue(s.sub), steps |-> s.steps,
        substitutionSteps |-> s.substitutionSteps, expression |-> s.result]
  ELSE [result |-> SubValue(s.sub), steps |-> <<>>]

\* lines 386-395: the returned object; steps and substitutionSteps are the
\* arrays of the call
ReturnValue(s) ==
  IF s.includeSteps
  THEN [result |-> SubValue(s.sub), steps |-> s.steps,
        substitutionSteps |-> s.substitutionSteps, expression |-> s.expression]
  ELSE [result |-> SubValue(s.sub), steps |-> <<>>]

\* one step of a call with locals s on the heap h: the locals and the heap
\* after it.  trail lists the values the working string of the call (result
\* in evaluateExpression, result in evaluateSubExpression) has taken.
Step(s, h) ==
  LET Alloc(hh) == IF NewArrayAt(hh) > Len(hh) THEN Append(hh, <<>>) ELSE hh
      Push(hh, a, xs) == IF a = 0 THEN hh ELSE [hh EXCEPT ![a] = @ \o xs]
      To(ss, hh) == [s |-> ss, h |-> hh]
  IN
  CASE s.pc = "call" ->
         \* lines 281-302
         IF Falsy(s.expression)
         THEN To([s EXCEPT !.pc = "done", !.ret = <<[result |-> FALSE, steps |-> <<>>]>>], h)
         ELSE IF s.includeSteps
              THEN LET h1 == Alloc(h)
                       h2 == Alloc(h1)
                   IN  To([s EXCEPT !.result = s.expression, !.steps = NewArrayAt(h),
                                    !.substitutionSteps = NewArrayAt(h1), !.k = 1,
                                    !.pc = "subst", !.trail = <<s.expression>>],
                          Push(h2, NewArrayAt(h1),
                               <<[operation |-> <<"Expresion original">>,
                                  description |-> s.expression,
                                  result |-> s.expression]>>))
              ELSE To([s EXCEPT !.result = s.expression, !.k = 1, !.pc = "subst",
                               !.trail = <<s.expression>>], h)
    [] s.pc = "subst" ->
         IF s.k <= Len(s.values)
         THEN \* lines 309-327
              LET variable == s.values[s.k][1]
                  value == s.values[s.k][2]
                  new == Substitute(s.result, variable, value)
              IN  To([s EXCEPT !.result = new, !.k = @ + 1, !.trail = Append(@, new)],
                     IF s.includeSteps /\ Substituted(s.result, new)
                     THEN Push(h, s.substitutionSteps,
                               <<[operation |-> <<"Sustitucion: ", variable>>,
                                  description |-> <<variable, "=", VF(value)>>,
                                  result |-> new]>>)
                     ELSE h)
         ELSE \* lines 333-339
              To([s EXCEPT !.pc = "parenTest"],
                 IF s.includeSteps
                 THEN Push(h, s.steps,
                           <<[operation |-> <<"Sustitucion de variables">>,
                              description |-> <<"Expresion con valores: ">> \o s.result,
                              result |-> s.result]>>)
                 ELSE h)
    [] s.pc = "parenTest" ->
         \* lines 346-347
         IF Includes(s.result, LP)
         THEN To([s EXCEPT !.oldResult = s.result, !.pos = 1, !.pc = "parenScan"], h)
         ELSE To([s EXCEPT !.pc = "finalCall"], h)
    [] s.pc = "parenScan" ->
         \* lines 351-356 and 373
         LET from == NextParen(s.oldResult, s.pos)
         IN  IF from # 0
             THEN LET to == ParenEnd(s.oldResult, from)
                      inner == SubSeq(s.oldResult, from + 1, to - 1)
                  IN  To([s EXCEPT !.out = @ \o SubSeq(s.oldResult, s.pos, from - 1),
                                   !.matchEnd = to, !.pos = from, !.subExpr = inner,
                                   !.sub = inner,
                                   !.subSteps = IF s.includeSteps THEN NewArrayAt(h) ELSE 0,
                                   !.caller = "paren", !.opIdx = 1, !.pc = "subNot",
                                   !.trail = Append(@, inner)],
                         IF s.includeSteps THEN Alloc(h) ELSE h)
             ELSE LET new == s.out \o SubSeq(s.oldResult, s.pos, Len(s.oldResult))
                  IN  To([s EXCEPT !.result = new,
                                   !.pc = IF ParenLoopBreak(s.oldResult, new)
                                          THEN "finalCall" ELSE "parenTest",
                                   !.oldResult = <<>>, !.pos = 0, !.out = <<>>,
                                   !.matchEnd = 0, !.trail = Append(@, new)], h)
    [] s.pc = "finalCall" ->
         \* line 380
         To([s EXCEPT !.subExpr = s.result, !.sub = s.result, !.subSteps = s.steps,
                      !.caller = "final", !.opIdx = 1, !.pc = "subNot",
                      !.trail = Append(@, s.result)], h)
    [] s.pc = "subNot" ->
         \* line 163
         To([s EXCEPT !.pc = IF Includes(s.sub, NOT) THEN "subNotPass" ELSE "subBin"], h)
    [] s.pc = "subNotPass" ->
         \* lines 164-187
         LET ev == NotScan(s.sub, 1)
             new == OutOf(ev)
         IN  To([s EXCEPT !.sub = new,
                          !.pc = IF NotLoopBreak(s.sub, new) THEN "subBin" ELSE "subNot",
                          !.trail = Append(@, new)],
                Push(h, s.subSteps, NotStepsOf(ev)))
    [] s.pc = "subBin" ->
         \* lines 209-242
         LET cands == {n \in s.opIdx..Len(operatorOrder) : BinMatches(s.sub, operatorOrder[n])}
         IN  IF cands = {}
             THEN To([s EXCEPT !.opIdx = Len(operatorOrder) + 1, !.pc = "subReturn"], h)
             ELSE LET n == SetMin(cands)
                      ev == BinScan(s.sub, operatorOrder[n], 1)
                      new == OutOf(ev)
                  IN  To([s EXCEPT !.sub = new,
                                   !.opIdx = IF BinLoopBreak(s.sub, new) THEN n + 1 ELSE n,
                                   !.trail = Append(@, new)],
                         Push(h, s.subSteps, BinStepsOf(ev)))
    [] s.pc = "subReturn" ->
         IF s.caller = "paren"
         THEN \* line 245 and lines 359-369
              LET subResult == SubValue(s.sub)
                  match == SubSeq(s.oldResult, s.pos, s.matchEnd)
              IN  To([s EXCEPT !.out = Append(@, Bit(subResult)), !.pos = s.matchEnd + 1,
                               !.matchEnd = 0, !.pc = "parenScan", !.subExpr = <<>>,
                               !.sub = <<>>, !.subSteps = 0, !.caller = "none",
                               !.opIdx = 0],
                     IF s.includeSteps
                     THEN Push(h, s.steps,
                               <<[operation |-> <<"Evaluacion: ">> \o match,
                                  description |-> <<"Parentesis: ", VF(subResult)>>,
                                  result |-> Bit(subResult),
                                  subSteps |-> s.subSteps]>>)
                     ELSE h)
         ELSE \* line 245 and lines 380-395
              To([s EXCEPT !.ret = <<ReturnValue(s)>>, !.pc = "done"], h)

vars == <<evalVars, combVars, extractVars, validateVars, fractionVars, gcdVars, pipeVars, threadVars>>


(***************************************************************************)
(* The specifications.                                                     *)
(***************************************************************************)
EvalIdle ==
  /\ calls = <<>>
  /\ returned = <<>>
  /\ pc = "idle"
  /\ expression = <<>>
  /\ values = <<>>
  /\ includeSteps = FALSE
  /\ result = <<>>
  /\ steps = NullSteps
  /\ substitutionSteps = NullSteps
  /\ k = 0
  /\ oldResult = <<>>
  /\ pos = 0
  /\ out = <<>>
  /\ matchEnd = 0
  /\ subExpr = <<>>
  /\ sub = <<>>
  /\ subSteps = NullSteps
  /\ caller = "none"
  /\ opIdx = 0

CombIdle ==
  /\ variables = <<>>
  /\ combinations = <<>>
  /\ combination = <<>>
  /\ i = 0
  /\ j = 0
  /\ gpc = "idle"

ExtractIdle ==
  /\ xExpression = <<>>
  /\ xResult = <<>>
  /\ xpc = "idle"

ValidateIdle ==
  /\ vExpression = <<>>
  /\ vResult = FALSE
  /\ vpc = "idle"

PipeIdle ==
  /\ tMaps = <<>>
  /\ tpc = "idle"

ThreadsIdle ==
  /\ th = <<>>
  /\ heap = <<>>

GcdIdle ==
  /\ gCalls = <<>>
  /\ gReturned = <<>>
  /\ ga = 0
  /\ gb = 0
  /\ gcdpc = "idle"

\* new Fraction(0) twice, and no call yet
FractionIdle ==
  /\ fa = Fraction(0, 1).value
  /\ fb = Fraction(0, 1).value
  /\ fnew = <<>>
  /\ ferr = "none"
  /\ fop = "none"

\* a caller that has not called evaluateExpression yet
Init ==
  /\ EvalIdle
  /\ CombIdle
  /\ ExtractIdle
  /\ ValidateIdle
  /\ FractionIdle
  /\ GcdIdle
  /\ PipeIdle
  /\ ThreadsIdle

Next ==
  \/ Enter /\ UNCHANGED <<combVars, extractVars, validateVars, fractionVars, gcdVars, pipeVars, threadVars>>
  \/ SubstituteEntry /\ UNCHANGED <<combVars, extractVars, validateVars, fractionVars, gcdVars, pipeVars, threadVars>>
  \/ RecordSubstituted /\ UNCHANGED <<combVars, extractVars, validateVars, fractionVars, gcdVars, pipeVars, threadVars>>
  \/ ParenTest /\ UNCHANGED <<combVars, extractVars, validateVars, fractionVars, gcdVars, pipeVars, threadVars>>
  \/ ParenScan /\ UNCHANGED <<combVars, extractVars, validateVars, fractionVars, gcdVars, pipeVars, threadVars>>
  \/ FinalCall /\ UNCHANGED <<combVars, extractVars, validateVars, fractionVars, gcdVars, pipeVars, threadVars>>
  \/ SubNotTest /\ UNCHANGED <<combVars, extractVars, validateVars, fractionVars, gcdVars, pipeVars, threadVars>>
  \/ SubNotPass /\ UNCHANGED <<combVars, extractVars, validateVars, fractionVars, gcdVars, pipeVars, threadVars>>
  \/ SubBin /\ UNCHANGED <<combVars, extractVars, validateVars, fractionVars, gcdVars, pipeVars, threadVars>>
  \/ ReturnToParen /\ UNCHANGED <<combVars, extractVars, validateVars, fractionVars, gcdVars, pipeVars, threadVars>>
  \/ ReturnResult /\ UNCHANGED <<combVars, extractVars, validateVars, fractionVars, gcdVars, pipeVars, threadVars>>

Spec == Init /\ [][Next]_vars

\* the sorted lists of at most MaxVars variables
VariableLists ==
  {SelectSeq(variablesList, LAMBDA v : v \in S) :
     S \in {T \in SUBSET VarSet : Cardinality(T) <= MaxVars}}

\* a caller of generateCombinations
InitComb ==
  /\ variables \in VariableLists
  /\ combinations = <<>>
  /\ combination = <<>>
  /\ i = 0
  /\ j = 0
  /\ gpc = "call"
  /\ EvalIdle
  /\ ExtractIdle
  /\ ValidateIdle
  /\ FractionIdle
  /\ GcdIdle
  /\ PipeIdle
  /\ ThreadsIdle

NextComb ==
  \/ GenStart /\ UNCHANGED <<evalVars, extractVars, validateVars, fractionVars, gcdVars, pipeVars, threadVars>>
  \/ GenOuter /\ UNCHANGED <<evalVars, extractVars, validateVars, fractionVars, gcdVars, pipeVars, threadVars>>
  \/ GenInner /\ UNCHANGED <<evalVars, extractVars, validateVars, fractionVars, gcdVars, pipeVars, threadVars>>

SpecComb == InitComb /\ [][NextComb]_vars

\* the characters of the strings handed to extractVariables
ExtractAlphabet == VarSet \cup {AND, SP, LP}

\* 'p ∨ (q ∧ r)' and 'p ∧ p ∨ q'
DocExtract ==
  {<<"p", SP, OR, SP, LP, "q", SP, AND, SP, "r", RP>>,
   <<"p", SP, AND, SP, "p", SP, OR, SP, "q">>}

\* a caller of extractVariables
InitExtract ==
  /\ xExpression \in StringsOver(ExtractAlphabet, MaxLen) \cup DocExtract
  /\ xResult = <<>>
  /\ xpc = "call"
  /\ EvalIdle
  /\ CombIdle
  /\ ValidateIdle
  /\ FractionIdle
  /\ GcdIdle
  /\ PipeIdle
  /\ ThreadsIdle

NextExtract == ExtractCall /\ UNCHANGED <<evalVars, combVars, validateVars, fractionVars, gcdVars, pipeVars, threadVars>>

SpecExtract == InitExtract /\ [][NextExtract]_vars

\* the characters of the strings handed to validateExpression
ValidateAlphabet == {"p", NOT, LP, RP, SP} \cup BinOps

\* the examples of the JSDoc of validateExpression, lines 268-281
DocValidate ==
  {<<"p", SP, AND, SP, "q">>,
   <<LP, "p", SP, OR, SP, "q", RP, SP, AND, SP, "r">>,
   <<NOT, "p">>,
   <<"p", SP, IMP, SP, LP, "q", SP, XNOR, SP, "r", RP>>,
   <<>>,
   <<LP, "p", SP, AND, SP, "q">>,
   <<"p", SP, AND, SP, OR, SP, "q">>,
   <<AND, SP, "p">>,
   <<"p", SP, AND>>}

\* a caller of validateExpression
InitValidate ==
  /\ vExpression \in StringsOver(ValidateAlphabet, MaxLen) \cup DocValidate \cup {Absent}
  /\ vResult = FALSE
  /\ vpc = "call"
  /\ EvalIdle
  /\ CombIdle
  /\ ExtractIdle
  /\ FractionIdle
  /\ GcdIdle
  /\ PipeIdle
  /\ ThreadsIdle

NextValidate == ValidateCall /\ UNCHANGED <<evalVars, combVars, extractVars, fractionVars, gcdVars, pipeVars, threadVars>>

SpecValidate == InitValidate /\ [][NextValidate]_vars

\* a caller of Fraction that has constructed its a and its b
InitFraction ==
  /\ fa \in {Fraction(n, d).value : n \in Terms, d \in Terms \ {0}}
  /\ fb \in {Fraction(n, d).value : n \in Terms, d \in Terms \ {0}}
  /\ fnew = <<>>
  /\ ferr = "none"
  /\ fop = "none"
  /\ EvalIdle
  /\ CombIdle
  /\ ExtractIdle
  /\ ValidateIdle
  /\ GcdIdle
  /\ PipeIdle
  /\ ThreadsIdle

NextFraction ==
  \/ FNew /\ UNCHANGED <<evalVars, combVars, extractVars, validateVars, gcdVars, pipeVars, threadVars>>
  \/ FAdd /\ UNCHANGED <<evalVars, combVars, extractVars, validateVars, gcdVars, pipeVars, threadVars>>
  \/ FSubtract /\ UNCHANGED <<evalVars, combVars, extractVars, validateVars, gcdVars, pipeVars, threadVars>>
  \/ FMultiply /\ UNCHANGED <<evalVars, combVars, extractVars, validateVars, gcdVars, pipeVars, threadVars>>
  \/ FDivide /\ UNCHANGED <<evalVars, combVars, extractVars, validateVars, gcdVars, pipeVars, threadVars>>
  \/ FNegate /\ UNCHANGED <<evalVars, combVars, extractVars, validateVars, gcdVars, pipeVars, threadVars>>
  \/ FAbs /\ UNCHANGED <<evalVars, combVars, extractVars, validateVars, gcdVars, pipeVars, threadVars>>
  \/ FSimplify /\ UNCHANGED <<evalVars, combVars, extractVars, validateVars, gcdVars, pipeVars, threadVars>>
  \/ FAssign /\ UNCHANGED <<evalVars, combVars, extractVars, validateVars, gcdVars, pipeVars, threadVars>>

SpecFraction == InitFraction /\ [][NextFraction]_vars

\* a caller that calls gcd(a, b) and then gcd(b, a)
InitGcd ==
  /\ gCalls \in {<<<<x, y>>, <<y, x>>>> : x \in (-MaxGcd)..MaxGcd, y \in (-MaxGcd)..MaxGcd}
  /\ gReturned = <<>>
  /\ ga = 0
  /\ gb = 0
  /\ gcdpc = "idle"
  /\ EvalIdle
  /\ CombIdle
  /\ ExtractIdle
  /\ ValidateIdle
  /\ FractionIdle
  /\ PipeIdle
  /\ ThreadsIdle

NextGcd ==
  \/ GcdEnter /\ UNCHANGED <<evalVars, combVars, extractVars, validateVars, fractionVars, pipeVars, threadVars>>
  \/ GcdIterate /\ UNCHANGED <<evalVars, combVars, extractVars, validateVars, fractionVars, pipeVars, threadVars>>
  \/ GcdReturn /\ UNCHANGED <<evalVars, combVars, extractVars, validateVars, fractionVars, pipeVars, threadVars>>

SpecGcd == InitGcd /\ [][NextGcd]_vars

\* the expressions of the truth tables: none, one, two and three variables,
\* repeated and out of order
PipeExprs ==
  StringsOver({"q", "p", AND, LP}, MaxLen)
  \cup {DocNested, <<"r", IMP, "p", OR, "r">>, <<"z", AND, "q", AND, "x">>}

\* a caller that builds the assignments of the truth table of an expression
InitPipe ==
  /\ xExpression \in PipeExprs
  /\ xResult = <<>>
  /\ xpc = "call"
  /\ tMaps = <<>>
  /\ tpc = "extract"
  /\ CombIdle
  /\ EvalIdle
  /\ ValidateIdle
  /\ FractionIdle
  /\ GcdIdle
  /\ ThreadsIdle

NextPipe ==
  \/ ExtractCall /\ UNCHANGED <<evalVars, combVars, validateVars, fractionVars, gcdVars, pipeVars, threadVars>>
  \/ PipeGenerate /\ UNCHANGED <<evalVars, extractVars, validateVars, fractionVars, gcdVars, threadVars>>
  \/ GenStart /\ UNCHANGED <<evalVars, extractVars, validateVars, fractionVars, gcdVars, pipeVars, threadVars>>
  \/ GenOuter /\ UNCHANGED <<evalVars, extractVars, validateVars, fractionVars, gcdVars, pipeVars, threadVars>>
  \/ GenInner /\ UNCHANGED <<evalVars, extractVars, validateVars, fractionVars, gcdVars, pipeVars, threadVars>>
  \/ PipeMap /\ UNCHANGED <<evalVars, combVars, extractVars, validateVars, fractionVars, gcdVars, threadVars>>

SpecPipe == InitPipe /\ [][NextPipe]_vars

\* two calls: every call on five expressions beside three calls, and every
\* traced call beside the same call untraced
InitThreads ==
  /\ LET exprs == {TightBinary(AND), Wrap(TightBinary(OR)) \o <<IMP, NOT, "p">>, DocNot,
                   <<>>, <<NOT>> \o Wrap(<<NOT, "p", IMP, "q">>)}
         all == UNION {{Call(e, v, t) : v \in TotalAssignments(e), t \in BOOLEAN} : e \in exprs}
         beside == {Call(Wrap(TightBinary(OR)) \o <<IMP, NOT, "p">>,
                         <<<<"p", TRUE>>, <<"q", FALSE>>>>, TRUE),
                    Call(DocNot, <<<<"p", FALSE>>>>, TRUE),
                    Call(TightBinary(AND), <<<<"p", TRUE>>, <<"q", TRUE>>>>, FALSE)}
         pairs == (all \X beside)
                    \cup {<<c, [c EXCEPT !.includeSteps = FALSE]>> : c \in all}
     IN  th \in {[t \in 1..2 |-> NewThread(pr[t])] : pr \in pairs}
  /\ heap = <<>>
  /\ EvalIdle
  /\ CombIdle
  /\ ExtractIdle
  /\ ValidateIdle
  /\ FractionIdle
  /\ GcdIdle
  /\ PipeIdle

\* the next step of one of the two calls
NextThreads ==
  \E t \in 1..2 :
    /\ th[t].pc # "done"
    /\ th' = [th EXCEPT ![t] = Step(th[t], heap).s]
    /\ heap' = Step(th[t], heap).h
    /\ UNCHANGED <<evalVars, combVars, extractVars, validateVars, fractionVars, gcdVars, pipeVars>>

SpecThreads == InitThreads /\ [][NextThreads]_vars

(***************************************************************************)
(* The properties.                                                         *)
(***************************************************************************)
\* every call of the caller has returned
Finished == pc = "idle" /\ Len(returned) = Len(calls)

\* the value an assignment gives to a variable
ValueOf(vals, v) == vals[CHOOSE n \in 1..Len(vals) : vals[n][1] = v][2]

\* every variable that occurs in the expression of every call has an entry
AllTotal ==
  \A n \in 1..Len(calls) :
    \A v \in VarSet :
      (\E m \in 1..Len(calls[n].expression) : calls[n].expression[m] = v)
        => \E m \in 1..Len(calls[n].values) : calls[n].values[m][1] = v

\* the truth tables of the binary operators as the specification states them
TruthTable(op, a, b) ==
  CASE op = AND -> (a /\ b)
    [] op = OR -> (a \/ b)
    [] op = NAND -> ~(a /\ b)
    [] op = NOR -> ~(a \/ b)
    [] op = XOR -> (a # b)
    [] op = XNOR -> (a = b)
    [] op = IMP -> (~a \/ b)

\* the documented order of precedence, highest first
Precedence == <<AND, OR, NAND, NOR, XOR, XNOR, IMP>>

\* C1: 'p op q', written with a space on each side of the operator, evaluates to
\* the truth table of op for every binary operator and every p, q; and '¬p'
\* evaluates to the negation of p.
C1_OperatorTruthTables ==
  (Len(calls) = 1 /\ Finished /\ AllTotal) =>
    LET e == calls[1].expression
        v == calls[1].values
    IN  /\ \A op \in {Precedence[n] : n \in 1..Len(Precedence)} :
             e = DocBinary(op) =>
               returned[1].result = TruthTable(op, ValueOf(v, "p"), ValueOf(v, "q"))
        /\ e = DocNot => returned[1].result = ~ValueOf(v, "p")

\* the part of C1 that the code satisfies: the same expressions without spaces
C1_TightTruthTables ==
  (Len(calls) = 1 /\ Finished /\ AllTotal) =>
    LET e == calls[1].expression
        v == calls[1].values
    IN  /\ \A op \in {Precedence[n] : n \in 1..Len(Precedence)} :
             e = TightBinary(op) =>
               returned[1].result = TruthTable(op, ValueOf(v, "p"), ValueOf(v, "q"))
        /\ e = DocNot => returned[1].result = ~ValueOf(v, "p")

\* every expression the caller evaluates passes validateExpression
AllValid == \A n \in 1..Len(calls) : validateExpression(calls[n].expression)

\* the number of occurrences of a character
CountOf(s, c) == Cardinality({n \in 1..Len(s) : s[n] = c})

\* a < b in the lexicographic order of tuples of naturals of one length
RECURSIVE LexLess(_, _)
LexLess(a, b) ==
  /\ a # <<>>
  /\ \/ a[1] < b[1]
     \/ a[1] = b[1] /\ LexLess(Tail(a), Tail(b))

\* a measure of what is left to do: the calls to return from, the phase of the
\* running call, the entries to substitute or the '(' left, the place in the
\* parenthesis pass, the length of the string of evaluateSubExpression and the
\* place in its loops
Rank ==
  LET inParen == pc \in {"parenTest", "parenScan"} \/ caller = "paren"
      inFinal == pc = "finalCall" \/ caller = "final"
  IN  <<Len(calls) - Len(returned),
        CASE pc = "idle" -> 4
          [] pc = "subst" -> 3
          [] inParen -> 2
          [] inFinal -> 1,
        CASE pc = "subst" -> Len(values) + 1 - k
          [] inParen -> CountOf(result, LP)
          [] OTHER -> 0,
        CASE pc = "parenTest" -> 2 * (Len(result) + 2)
          [] pc = "parenScan" -> 2 * (Len(oldResult) + 1 - pos) + 1
          [] inParen -> 2 * (Len(oldResult) + 1 - pos)
          [] pc = "finalCall" -> 1
          [] OTHER -> 0,
        Len(sub),
        CASE pc = "subNot" -> 3
          [] pc = "subNotPass" -> 2
          [] pc = "subBin" -> 1
          [] OTHER -> 0>>

\* C2: for an expression that validateExpression accepts and a total assignment,
\* evaluateExpression terminates and returns one boolean: every step of a call,
\* each iteration of each loop among them, decreases the measure Rank, a tuple
\* of naturals ordered lexicographically, so that no loop runs forever; and the
\* value returned is a boolean.
C2_Terminates ==
  /\ [](AllValid => \A n \in 1..Len(Rank) : Rank[n] \in Nat)
  /\ [][(calls # <<>> /\ AllValid) => LexLess(Rank', Rank)]_vars
  /\ [](AllValid => \A n \in 1..Len(returned) : returned[n].result \in BOOLEAN)

\* '¬ p': the NOT loop leaves through its break, and the call returns
C2_Witness ==
  /\ Finished
  /\ AllValid
  /\ Len(calls) = 1
  /\ calls[1].expression = <<NOT, SP, "p">>
  /\ returned[1].result = FALSE

\* C3: for an expression that validateExpression accepts and a total assignment,
\* the rewriting ends on a working string of exactly one character, '0' or '1',
\* and the result is true iff that character is '1'.
C3_SingleCharacter ==
  (pc = "subReturn" /\ caller = "final" /\ validateExpression(expression) /\ AllTotal) =>
    /\ Len(sub) = 1
    /\ sub[1] \in Digits

\* C4: 'p ∧ (q ∨ r)' evaluates to p ∧ (q ∨ r) for every p, q, r.
C4_NestedParentheses ==
  (Len(calls) = 1 /\ Finished /\ AllTotal /\ calls[1].expression = DocNested) =>
    LET v == calls[1].values
    IN  returned[1].result = (ValueOf(v, "p") /\ (ValueOf(v, "q") \/ ValueOf(v, "r")))

\* the value of a literal
LitValue(v, negated, vals) == IF negated THEN ~ValueOf(vals, v) ELSE ValueOf(vals, v)

\* C5: in x op1 y op2 z, without parentheses or spaces, over variables and negated
\* variables, the negations are applied first and then the operator that comes
\* earlier in the order of precedence, wherever it stands (the left one of two
\* equal operators).
C5_Precedence ==
  (Len(calls) = 1 /\ Finished /\ AllTotal /\ calls[1].expression \in Triples) =>
    \A n \in [1..3 -> BOOLEAN], a \in 1..Len(Precedence), b \in 1..Len(Precedence) :
      calls[1].expression = Triple(n[1], Precedence[a], n[2], Precedence[b], n[3]) =>
        LET v == calls[1].values
            x == LitValue("p", n[1], v)
            y == LitValue("q", n[2], v)
            z == LitValue("r", n[3], v)
        IN  returned[1].result =
              IF a <= b
              THEN TruthTable(Precedence[b], TruthTable(Precedence[a], x, y), z)
              ELSE TruthTable(Precedence[a], x, TruthTable(Precedence[b], y, z))

\* 'p⊼q∨r' with p, r true and q false is p⊼(q∨r), false, and not (p⊼q)∨r
C5_Witness ==
  /\ Finished
  /\ Len(calls) = 1
  /\ calls[1].expression = <<"p", NAND, "q", OR, "r">>
  /\ calls[1].values = <<<<"p", TRUE>>, <<"q", FALSE>>, <<"r", TRUE>>>>
  /\ returned[1].result = FALSE

\* ((v1 op v2) op v3) ... op vn
RECURSIVE LeftFold(_, _, _)
LeftFold(op, n, vals) ==
  IF n = 1 THEN ValueOf(vals, chainVars[1])
  ELSE TruthTable(op, LeftFold(op, n - 1, vals), ValueOf(vals, chainVars[n]))

\* C6: a chain v1 op v2 op ... op vk of one binary operator evaluates to its
\* left-associated fold, for every operator, every k and every assignment.
C6_LeftFold ==
  (Len(calls) = 1 /\ Finished /\ AllTotal /\ calls[1].expression \in Chains) =>
    \A op \in {Precedence[n] : n \in 1..Len(Precedence)}, n \in 2..MaxChain :
      calls[1].expression = Chain(op, n) =>
        returned[1].result = LeftFold(op, n, calls[1].values)

\* the part of C6 that the code satisfies: chains of at most three operands
C6_LeftFoldUpTo3 ==
  (Len(calls) = 1 /\ Finished /\ AllTotal /\ calls[1].expression \in Chains) =>
    \A op \in {Precedence[n] : n \in 1..Len(Precedence)}, n \in 2..3 :
      calls[1].expression = Chain(op, n) =>
        returned[1].result = LeftFold(op, n, calls[1].values)

\* bit b of n
BitIsSet(n, b) == (n \div (2 ^ b)) % 2 = 1

\* C7: slot k of row i of generateCombinations is bit (n-1-k) of i: the most
\* significant bit comes first.
C7_MostSignificantFirst ==
  gpc = "done" =>
    LET n == Len(variables)
    IN  \A row \in 0..(Len(combinations) - 1), slot \in 0..(n - 1) :
          combinations[row + 1][slot + 1] = BitIsSet(row, n - 1 - slot)

C9_RedundantParentheses ==
  (Len(calls) = 2 /\ Finished
     /\ <<calls[1].expression, calls[2].expression>> \in RedundantPairs)
    => returned[1].result = returned[2].result

\* the part of C9 that the code satisfies: all the pairs but those that group
\* the first two operands of a chain of four
C9_ButChainsOfFour ==
  (Len(calls) = 2 /\ Finished
     /\ <<calls[1].expression, calls[2].expression>> \in RedundantPairs
     /\ calls[1].expression \notin {Chain(op, 4) : op \in BinOps})
    => returned[1].result = returned[2].result

\* the place of a variable in the alphabet p, q, r, x, y, z
AlphabetRank(v) ==
  CASE v = "p" -> 1
    [] v = "q" -> 2
    [] v = "r" -> 3
    [] v = "x" -> 4
    [] v = "y" -> 5
    [] v = "z" -> 6

\* C10: extractVariables returns exactly the variables of the alphabet that
\* occur in the expression, each once, in ascending alphabetical order.
C10_SortedDistinctOccurring ==
  xpc = "done" =>
    /\ {xResult[n] : n \in 1..Len(xResult)} =
         {v \in {"p", "q", "r", "x", "y", "z"} : \E n \in 1..Len(xExpression) : xExpression[n] = v}
    /\ \A m \in 1..Len(xResult), n \in 1..Len(xResult) :
         m < n => AlphabetRank(xResult[m]) < AlphabetRank(xResult[n])

C10_Witness ==
  /\ xpc = "done"
  /\ xExpression = <<"p", SP, AND, SP, "p", SP, OR, SP, "q">>
  /\ xResult = <<"p", "q">>

\* C11: evaluateSubExpression on the whitespace-free string 'a op b', for every
\* binary operator op and digits a, b, returns the truth-table value of op; and
\* on '~a' it returns the negation of a.
C11_SubExpressionTruthTables ==
  pc = "subReturn" =>
    /\ \A op \in {Precedence[n] : n \in 1..Len(Precedence)}, x \in BOOLEAN, y \in BOOLEAN :
         subExpr = <<IF x THEN "1" ELSE "0", op, IF y THEN "1" ELSE "0">> =>
           SubValue(sub) = TruthTable(op, x, y)
    /\ \A x \in BOOLEAN :
         subExpr = <<NOT, IF x THEN "1" ELSE "0">> => SubValue(sub) = ~x

\* evaluateSubExpression('1⊼1') is about to return false
C11_Witness ==
  /\ pc = "subReturn"
  /\ subExpr = <<"1", NAND, "1">>
  /\ sub = <<"0">>

\* C12: for an empty or absent expression evaluateExpression returns
\* {result: false, steps: []}, whatever the assignment and the trace flag.
C12_EmptyExpression ==
  \A n \in 1..Len(returned) :
    (calls[n].expression = <<>> \/ calls[n].expression = Absent) =>
      returned[n] = [result |-> FALSE, steps |-> <<>>]

\* evaluateExpression('', {p: true, q: false}, true) has returned
C12_Witness ==
  /\ Finished
  /\ calls = <<Call(<<>>, <<<<"p", TRUE>>, <<"q", FALSE>>>>, TRUE)>>
  /\ returned = <<[result |-> FALSE, steps |-> <<>>]>>

\* the entries of an assignment for the variables that occur in e
Occurring(e, vals) == SelectSeq(vals, LAMBDA entry : \E n \in 1..Len(e) : e[n] = entry[1])

\* C13: entries of the assignment for variables of the alphabet that do not
\* occur in the expression change nothing: the result, the steps and the
\* substitution steps are those of the call without these entries.
C13_UnusedEntriesIgnored ==
  (Len(calls) = 2 /\ Finished
     /\ calls[1].expression = calls[2].expression
     /\ calls[1].includeSteps = calls[2].includeSteps
     /\ Occurring(calls[1].expression, calls[1].values) = calls[1].values
     /\ Occurring(calls[2].expression, calls[2].values) = calls[1].values)
    => returned[1] = returned[2]

\* 'p ∧ q' traced with {p, q} and with {x, p, q, r}
C13_Witness ==
  /\ Finished
  /\ Len(calls) = 2
  /\ calls[1] = Call(DocBinary(AND), <<<<"p", TRUE>>, <<"q", TRUE>>>>, TRUE)
  /\ calls[2] = Call(DocBinary(AND),
                     <<<<"x", TRUE>>, <<"p", TRUE>>, <<"q", TRUE>>, <<"r", FALSE>>>>, TRUE)
  /\ Len(returned[2].substitutionSteps) = 3

\* the entries of two assignments are the same, in any order
SameEntries(v, w) ==
  /\ Len(v) = Len(w)
  /\ \A entry \in {v[n] : n \in 1..Len(v)} \cup {w[n] : n \in 1..Len(w)} :
       Cardinality({n \in 1..Len(v) : v[n] = entry}) =
         Cardinality({n \in 1..Len(w) : w[n] = entry})

\* C14: the order of the entries of the assignment does not matter: the
\* substituted working string (the result of the first step of the trace) and
\* the final result are the same for every order.
C14_OrderOfSubstitution ==
  (Len(calls) = 2 /\ Finished
     /\ calls[1].expression = calls[2].expression
     /\ calls[1].includeSteps /\ calls[2].includeSteps
     /\ SameEntries(calls[1].values, calls[2].values))
    => /\ returned[1].result = returned[2].result
       /\ returned[1].steps[1].result = returned[2].steps[1].result

\* 'p ∧ (q ∨ r)' with the entries in the orders p, q, r and r, p, q
C14_Witness ==
  /\ Finished
  /\ Len(calls) = 2
  /\ calls[1] = Call(DocNested, <<<<"p", TRUE>>, <<"q", FALSE>>, <<"r", TRUE>>>>, TRUE)
  /\ calls[2] = Call(DocNested, <<<<"r", TRUE>>, <<"p", TRUE>>, <<"q", FALSE>>>>, TRUE)
  /\ returned[2].steps[1].result = <<"1", SP, AND, SP, LP, "0", SP, OR, SP, "1", RP>>

\* C15: two traced calls with identical inputs return identical values: the
\* boolean, the steps with their subSteps, and the substitution steps.
C15_SameCallSameResult ==
  (Len(calls) = 2 /\ Finished /\ calls[1] = calls[2] /\ calls[1].includeSteps)
    => returned[1] = returned[2]

\* '(p∨q)→¬p' traced twice with p true and q false
C15_Witness ==
  /\ Finished
  /\ Len(calls) = 2
  /\ calls[1] = calls[2]
  /\ calls[1] = Call(Wrap(TightBinary(OR)) \o <<IMP, NOT, "p">>,
                     <<<<"p", TRUE>>, <<"q", FALSE>>>>, TRUE)
  /\ Len(returned[2].steps) = 4
  /\ Len(returned[2].steps[2].subSteps) = 1

\* C16: a call with trace = false returns both step lists, and both are empty:
\* steps is an empty list and substitutionSteps is an empty list.
C16_BothListsEmpty ==
  \A n \in 1..Len(returned) :
    ~calls[n].includeSteps =>
      /\ "steps" \in DOMAIN returned[n]
      /\ returned[n].steps = <<>>
      /\ "substitutionSteps" \in DOMAIN returned[n]
      /\ returned[n].substitutionSteps = <<>>

\* C16, amended: a call with trace = false returns the boolean result and an
\* empty list of steps, and nothing else: the value has no substitutionSteps
\* and no expression.
C16_OnlyEmptySteps ==
  \A n \in 1..Len(returned) :
    ~calls[n].includeSteps =>
      /\ DOMAIN returned[n] = {"result", "steps"}
      /\ returned[n].steps = <<>>
      /\ returned[n].result \in BOOLEAN

\* evaluateExpression('p ∧ (q ∨ r)', {p: true, q: false, r: true}) has returned
C16_Witness ==
  /\ Finished
  /\ calls = <<Call(DocNested, <<<<"p", TRUE>>, <<"q", FALSE>>, <<"r", TRUE>>>>, FALSE)>>
  /\ DOMAIN returned[1] = {"result", "steps"}
  /\ returned[1].steps = <<>>

\* the binary operators and all the operators, as the rules name them
RuleBinary == {"&", "|", "N", "R", "+", "=", ">"}

RuleOperators == RuleBinary \cup {"~"}

\* the documented rules: a non-empty expression, no prefix with more ')' than
\* '(', as many '(' as ')', no binary operator next to another, none at the
\* start, no operator at the end
Rules(e) ==
  /\ e \notin {<<>>, Absent}
  /\ \A n \in 0..Len(e) : CountOf(SubSeq(e, 1, n), ")") <= CountOf(SubSeq(e, 1, n), "(")
  /\ CountOf(e, "(") = CountOf(e, ")")
  /\ \A n \in 1..(Len(e) - 1) : ~(e[n] \in RuleBinary /\ e[n + 1] \in RuleBinary)
  /\ e[1] \notin RuleBinary
  /\ e[Len(e)] \notin RuleOperators

OperatorsWithoutOperand(e) ==
  \E m \in 1..Len(e), n \in 1..Len(e) :
    /\ m < n
    /\ e[m] \in RuleBinary
    /\ e[n] \in RuleBinary
    /\ \A between \in (m + 1)..(n - 1) : e[between] = " "

\* C18: validateExpression rejects every expression in which two binary
\* operators follow one another with no operand between them, with or without
\* spaces, as in 'p ∧ ∨ q'.
C18_OperatorsWithoutOperand ==
  (vpc = "done" /\ OperatorsWithoutOperand(vExpression)) => vResult = FALSE

\* the part of C18 that the code satisfies: a binary operator next to another
C18_AdjacentOperators ==
  (vpc = "done"
     /\ \E n \in 1..(Len(vExpression) - 1) :
          vExpression[n] \in RuleBinary /\ vExpression[n + 1] \in RuleBinary)
    => vResult = FALSE

\* the greatest common divisor of x >= 0 and y > 0, by its definition
GreatestCommonDivisor(x, y) ==
  CHOOSE g \in 1..y :
    /\ x % g = 0 /\ y % g = 0
    /\ \A h \in 1..y : (x % h = 0 /\ y % h = 0) => h <= g

\* a fraction in lowest terms with a positive denominator
LowestTerms(f) ==
  /\ f.denominator > 0
  /\ GreatestCommonDivisor(IF f.numerator < 0 THEN -f.numerator ELSE f.numerator,
                           f.denominator) = 1

\* C19: every Fraction is in lowest terms with a positive denominator: the
\* ones constructed from an integer and a non-zero integer, and the ones add,
\* subtract, multiply, divide, negate, abs and simplify produce from them, in
\* any sequence.
C19_LowestTerms ==
  \A f \in {fa, fb} \cup {fnew[n] : n \in 1..Len(fnew)} : LowestTerms(f)

\* (1/2) / (-2/3) = -3/4: 3/-4 with the sign moved to the numerator
C19_Witness ==
  /\ fop = "divide"
  /\ fa = [numerator |-> 1, denominator |-> 2]
  /\ fb = [numerator |-> -2, denominator |-> 3]
  /\ fnew = <<[numerator |-> -3, denominator |-> 4]>>

\* C20: new Fraction(n, 0) throws 'Denominator cannot be zero' for every n, and
\* a.divide(b) throws 'Division by zero' when b is zero; no Fraction is
\* produced, and a and b are as they were.
C20_ZeroDenominators ==
  /\ [][\A n \in Terms :
          FNewCall(n, 0) =>
            /\ ferr' = "Denominator cannot be zero"
            /\ fnew' = <<>>
            /\ fa' = fa /\ fb' = fb]_vars
  /\ [][(FDivide /\ fb.numerator = 0) =>
          /\ ferr' = "Division by zero"
          /\ fnew' = <<>>
          /\ fa' = fa /\ fb' = fb]_vars

\* (2/3).divide(0) has thrown
C20_Witness ==
  /\ fop = "divide"
  /\ fa = [numerator |-> 2, denominator |-> 3]
  /\ fb = [numerator |-> 0, denominator |-> 1]
  /\ ferr = "Division by zero"
  /\ fnew = <<>>

\* new Fraction(n, 0) has thrown
C20_ConstructorThrew ==
  /\ fop = "new"
  /\ ferr = "Denominator cannot be zero"
  /\ fnew = <<>>

\* n divides m
Divides(n, m) == \E q \in (-(IF m < 0 THEN -m ELSE m))..(IF m < 0 THEN -m ELSE m) : m = q * n

\* the greatest non-negative integer that divides x and y; 0 when both are 0
GreatestDividingBoth(x, y) ==
  LET ax == IF x < 0 THEN -x ELSE x
      ay == IF y < 0 THEN -y ELSE y
      common == {n \in 1..(ax + ay) : Divides(n, x) /\ Divides(n, y)}
  IN  IF common = {} THEN 0 ELSE CHOOSE g \in common : \A n \in common : n <= g

\* C21: gcd(a, b) terminates, for b decreases in every iteration and stays a
\* natural; it returns the greatest non-negative integer dividing a and b
\* (|a| when b = 0); and gcd(b, a) returns the same.
C21_Gcd ==
  /\ [][(gcdpc = "loop" /\ gcdpc' = "loop") => (gb' \in Nat /\ gb' < gb)]_vars
  /\ [](\A n \in 1..Len(gReturned) :
          gReturned[n] = GreatestDividingBoth(gCalls[n][1], gCalls[n][2]))
  /\ [](\A n \in 1..Len(gReturned) :
          gCalls[n][2] = 0 =>
            gReturned[n] = (IF gCalls[n][1] < 0 THEN -gCalls[n][1] ELSE gCalls[n][1]))
  /\ [](Len(gReturned) = 2 => gReturned[1] = gReturned[2])

\* gcd(-12, 8) = 4 = gcd(8, -12)
C21_Witness ==
  /\ gCalls = <<<<-12, 8>>, <<8, -12>>>>
  /\ gReturned = <<4, 4>>
  /\ gcdpc = "idle"

\* a pass of a loop that replaced nothing
NoReplacement ==
  \/ pc = "subNotPass" /\ sub' = sub
  \/ pc = "subBin" /\ pc' = "subBin" /\ sub' = sub
  \/ pc = "parenScan" /\ pc' \in {"parenTest", "finalCall"} /\ result' = oldResult

\* the loop the step belongs to is left, or goes on
LoopLeft ==
  \/ pc = "subNotPass" /\ pc' = "subBin"
  \/ pc = "subBin" /\ opIdx' > opIdx
  \/ pc = "parenScan" /\ pc' = "finalCall"

\* C23: for every string over the alphabet, malformed ones included, every
\* loop exits: a pass without a replacement leaves its loop, every step
\* decreases the measure Rank, and the call returns a boolean.
C23_EveryLoopExits ==
  /\ [][NoReplacement => LoopLeft]_vars
  /\ [][calls # <<>> => (LexLess(Rank', Rank) /\ \A n \in 1..Len(Rank) : Rank'[n] \in Nat)]_vars
  /\ [](\A n \in 1..Len(returned) : returned[n].result \in BOOLEAN)

\* '(~': the parenthesis loop and the NOT loop were left through their breaks
C23_Witness ==
  /\ Finished
  /\ Len(calls) = 1
  /\ calls[1].expression = <<LP, NOT>>
  /\ ~validateExpression(calls[1].expression)
  /\ returned[1].result = FALSE

\* C24: for an accepted expression and a total assignment every executed pass
\* makes progress: a NOT pass and a binary pass shorten the working string, a
\* parenthesis pass reduces the number of '(', and a substitution keeps the
\* length.
C24_EveryPassProgresses ==
  [][(calls # <<>> /\ AllValid /\ AllTotal) =>
       /\ pc = "subNotPass" => Len(sub') < Len(sub)
       /\ (pc = "subBin" /\ pc' = "subBin") => Len(sub') < Len(sub)
       /\ (pc = "parenScan" /\ pc' \in {"parenTest", "finalCall"}) =>
            CountOf(result', "(") < CountOf(oldResult, "(")
       /\ (pc = "subst" /\ pc' = "subst") => Len(result') = Len(result)]_vars

\* C24, amended: every executed binary pass shortens the working string; an
\* executed NOT pass shortens it or leaves it unchanged, and then the NOT loop
\* is left at once; an executed parenthesis pass reduces the number of '(' or
\* leaves the string unchanged, and then the parenthesis loop is left at once;
\* a substitution keeps the length.
C24_ProgressOrExit ==
  [][(calls # <<>> /\ AllValid /\ AllTotal) =>
       /\ pc = "subNotPass" =>
            \/ Len(sub') < Len(sub)
            \/ sub' = sub /\ pc' = "subBin"
       /\ (pc = "subBin" /\ pc' = "subBin") => Len(sub') < Len(sub)
       /\ (pc = "parenScan" /\ pc' \in {"parenTest", "finalCall"}) =>
            \/ CountOf(result', "(") < CountOf(oldResult, "(")
            \/ result' = oldResult /\ pc' = "finalCall"
       /\ (pc = "subst" /\ pc' = "subst") => Len(result') = Len(result)]_vars

\* '(~)' with nothing to substitute: the parenthesis pass has replaced the
\* group although the NOT pass inside it replaced nothing
C24_Witness ==
  /\ AllValid
  /\ AllTotal
  /\ calls # <<>>
  /\ calls[1].expression = <<LP, NOT, RP>>
  /\ pc = "parenTest"
  /\ result = <<"0">>

\* the kinds of steps
IsSubstitutedStep(s) == s.operation = <<"Sustitucion de variables">>

IsParenStep(s) == "subSteps" \in DOMAIN s

IsNotStep(s) == ~IsParenStep(s) /\ Len(s.operation) = 2 /\ s.operation[1] = NOT

IsBinStep(s) ==
  ~IsParenStep(s) /\ Len(s.operation) = 3
    /\ \E n \in 1..Len(Precedence) : s.operation[2] = Precedence[n]

\* where a step stands in the order the claim states; -1 for no step of the four kinds
StepRank(s) ==
  CASE IsSubstitutedStep(s) -> 0
    [] IsParenStep(s) -> 1
    [] IsNotStep(s) -> 2
    [] IsBinStep(s) -> 2 + CHOOSE n \in 1..Len(Precedence) : s.operation[2] = Precedence[n]
    [] OTHER -> -1

\* the steps of list stand in that order, and none stands below the rank least
InOrder(list, least) ==
  /\ \A a \in 1..Len(list) : StepRank(list[a]) >= least
  /\ \A a \in 1..Len(list), b \in 1..Len(list) :
       a < b => StepRank(list[a]) <= StepRank(list[b])

\* the group of a parenthesis step holds no parenthesis: the groups inside it
\* were resolved before it
Innermost(s) ==
  LET g == SubSeq(s.operation, 2, Len(s.operation))
  IN  /\ Len(g) >= 3
      /\ g[1] = LP
      /\ g[Len(g)] = RP
      /\ \A n \in 2..(Len(g) - 1) : g[n] \notin {LP, RP}

\* a top-level step list in the order of the claim
TopInOrder(list) ==
  /\ list # <<>> => IsSubstitutedStep(list[1])
  /\ \A a \in 2..Len(list) : ~IsSubstitutedStep(list[a])
  /\ InOrder(list, 0)
  /\ \A a \in 1..Len(list) :
       IsParenStep(list[a]) => Innermost(list[a]) /\ InOrder(list[a].subSteps, 2)

IsPrefix(a, b) == Len(a) <= Len(b) /\ SubSeq(b, 1, Len(a)) = a

\* the top-level step list of the running call: evaluateSubExpression pushes
\* onto it during the final evaluation
TopSteps == IF caller = "final" THEN subSteps ELSE steps

\* the lists of the running call and of the returned values are in order
ListsInOrder ==
  /\ TopInOrder(TopSteps.items)
  /\ caller = "paren" => InOrder(subSteps.items, 2)
  /\ \A n \in 1..Len(returned) :
       calls[n].includeSteps =>
         /\ TopInOrder(returned[n].steps)
         /\ ~Falsy(calls[n].expression) => returned[n].steps # <<>>

\* a step of the program appends to the lists and hands them on as they are
AppendOnly ==
  /\ IsPrefix(returned, returned')
  /\ (pc # "idle" /\ pc' # "idle") =>
       /\ IsPrefix(TopSteps.items, TopSteps'.items)
       /\ IsPrefix(substitutionSteps.items, substitutionSteps'.items)
       /\ (caller = "paren" /\ caller' = "paren") =>
            IsPrefix(subSteps.items, subSteps'.items)
  /\ (includeSteps /\ pc = "subst" /\ pc' = "parenTest") =>
       /\ Len(TopSteps'.items) = 1
       /\ TopSteps'.items[1].result = result
       /\ result' = result
  /\ (includeSteps /\ pc = "subReturn" /\ pc' = "parenScan") =>
       /\ Len(steps'.items) = Len(steps.items) + 1
       /\ steps'.items[Len(steps'.items)].subSteps = subSteps.items
  /\ (includeSteps /\ pc = "subReturn" /\ pc' = "idle") =>
       returned'[Len(returned')].steps = TopSteps.items

\* C25: with tracing on the steps are recorded in the order the operations are
\* resolved and never changed afterwards: the step of the substituted string
\* first, the parenthesis steps before the steps of the final evaluation, inner
\* groups before the groups around them, and in every list the NOT steps before
\* the binary steps and the binary steps in the order AND, OR, NAND, NOR, XOR,
\* BICONDITIONAL, IMPLICATION.
C25_StepsInOrder == []ListsInOrder /\ [][AppendOnly]_vars

\* the trace of '~(~p>q&r)|~q': the substituted string, the group with its NOT
\* step and its two binary steps, the two NOT steps and the OR step
C25_Witness ==
  /\ Finished
  /\ Len(calls) = 1
  /\ calls[1].includeSteps
  /\ calls[1].expression = <<NOT>> \o Wrap(<<NOT, "p", IMP, "q", AND, "r">>) \o <<OR, NOT, "q">>
  /\ Len(returned[1].steps) = 5
  /\ [n \in 1..5 |-> StepRank(returned[1].steps[n])] = <<0, 1, 2, 2, 4>>
  /\ [n \in 1..3 |-> StepRank(returned[1].steps[2].subSteps[n])] = <<2, 3, 9>>

\* v stands at place n of e with no letter, digit or underscore next to it
WholeWordAt(e, n, v) ==
  /\ e[n] = v
  /\ n = 1 \/ e[n - 1] \notin VarSet \cup Digits
  /\ n = Len(e) \/ e[n + 1] \notin VarSet \cup Digits

\* the entries whose variable occurs in e as a whole word
Replaced(e, vals) ==
  SelectSeq(vals, LAMBDA en : \E n \in 1..Len(e) : WholeWordAt(e, n, en[1]))

\* e with the whole-word occurrences of the first m variables of rep replaced
AfterEntries(e, rep, m) ==
  [n \in 1..Len(e) |->
     IF \E a \in 1..m : WholeWordAt(e, n, rep[a][1])
     THEN Bit(rep[CHOOSE a \in 1..m : WholeWordAt(e, n, rep[a][1])][2])
     ELSE e[n]]

SubstitutionStep(e, rep, m) ==
  [operation |-> <<"Sustitucion: ", rep[m][1]>>,
   description |-> <<rep[m][1], "=", VF(rep[m][2])>>,
   result |-> AfterEntries(e, rep, m)]

\* C26: with tracing on substitutionSteps holds one step for every assigned
\* variable that occurs in the expression, in the order of the substitutions,
\* with the variable, its value and the string after the substitution, and
\* nothing else.
C26_OneStepPerVariable ==
  \A n \in 1..Len(returned) :
    (calls[n].includeSteps /\ ~Falsy(calls[n].expression)) =>
      LET e == calls[n].expression
          occ == Occurring(e, calls[n].values)
          ss == returned[n].substitutionSteps
      IN  /\ Len(ss) = Len(occ)
          /\ \A m \in 1..Len(ss) : ss[m] = SubstitutionStep(e, occ, m)

\* C26, amended: the list starts with the step of the original expression, and
\* then holds one step for every assigned variable that occurs in the
\* expression as a whole word, in the order of the substitutions, with the
\* variable, its value and the string after the substitution.
C26_OriginalThenOneStepPerVariable ==
  \A n \in 1..Len(returned) :
    (calls[n].includeSteps /\ ~Falsy(calls[n].expression)) =>
      LET e == calls[n].expression
          rep == Replaced(e, calls[n].values)
          ss == returned[n].substitutionSteps
      IN  /\ Len(ss) = 1 + Len(rep)
          /\ ss[1] = [operation |-> <<"Expresion original">>, description |-> e, result |-> e]
          /\ \A m \in 1..Len(rep) : ss[m + 1] = SubstitutionStep(e, rep, m)

\* '(p|q)>~p' traced with an entry for x, which it does not hold: the step of
\* the original expression, the step of p and the step of q
C26_Witness ==
  /\ Finished
  /\ Len(calls) = 2
  /\ calls[2].expression = Wrap(TightBinary(OR)) \o <<IMP, NOT, "p">>
  /\ Len(calls[2].values) = 3
  /\ Len(returned[2].substitutionSteps) = 3
  /\ returned[2].substitutionSteps[1].operation = <<"Expresion original">>

\* a negated n times
RECURSIVE NegatedTimes(_, _)
NegatedTimes(a, n) == IF n = 0 THEN a ELSE ~NegatedTimes(a, n - 1)

\* C27: n negations before p, before '(p)' and before '(p&q)', written without
\* spaces, evaluate to the value negated n times, for every n from 1 on.
C27_StackedNegations ==
  (Len(calls) = 1 /\ Finished /\ AllTotal) =>
    LET e == calls[1].expression
        v == calls[1].values
    IN  \A n \in 1..Len(e) :
          /\ e \in {Negations(n) \o <<"p">>, Negations(n) \o Wrap(<<"p">>)} =>
               returned[1].result = NegatedTimes(ValueOf(v, "p"), n)
          /\ e = Negations(n) \o Wrap(<<"p", AND, "q">>) =>
               returned[1].result = NegatedTimes(ValueOf(v, "p") /\ ValueOf(v, "q"), n)

\* '~~~(p)' with p true is false, and '~~~~p' with p true is true
C27_Witness ==
  /\ Finished
  /\ Len(calls) = 1
  /\ \/ /\ calls[1].expression = Negations(3) \o Wrap(<<"p">>)
        /\ calls[1].values = <<<<"p", TRUE>>>>
        /\ returned[1].result = FALSE
     \/ /\ calls[1].expression = Negations(MaxNeg) \o <<"p">>
        /\ calls[1].values = <<<<"p", TRUE>>>>
        /\ returned[1].result = NegatedTimes(TRUE, MaxNeg)

\* a variable of the expression of call n has no entry in its assignment
MissingVariable(n) ==
  \E u \in VarSet :
    /\ \E m \in 1..Len(calls[n].expression) : calls[n].expression[m] = u
    /\ \A m \in 1..Len(calls[n].values) : calls[n].values[m][1] # u

\* C29: a call whose assignment has no entry for a variable that occurs in the
\* expression returns false, whatever the values of the other variables.
C29_MissingVariableIsFalse ==
  \A n \in 1..Len(returned) :
    (~Falsy(calls[n].expression) /\ MissingVariable(n)) => returned[n].result = FALSE

\* the part of C29 that the code satisfies: the same for the expressions
\* without parentheses
C29_WithoutParentheses ==
  \A n \in 1..Len(returned) :
    (~Falsy(calls[n].expression) /\ MissingVariable(n)
       /\ ~Includes(calls[n].expression, LP))
      => returned[n].result = FALSE

\* the variables that occur in e
VariablesOf(e) == {v \in VarSet : \E n \in 1..Len(e) : e[n] = v}

\* the n-th variable of S in alphabetical order
NthOf(S, n) ==
  CHOOSE v \in S : Cardinality({u \in S : AlphabetRank(u) < AlphabetRank(v)}) = n - 1

\* C30: the rows of generateCombinations(extractVariables(e)), each mapped by
\* createVariableMap(extractVariables(e), row), are 2^n distinct assignments,
\* every one total over the n variables of e, every assignment once, and slot
\* m of a row is the value of the m-th variable in alphabetical order.
C30_EveryAssignmentOnce ==
  tpc = "done" =>
    LET S == VariablesOf(xExpression)
        n == Cardinality(S)
    IN  /\ Len(tMaps) = 2 ^ n
        /\ \A a \in 1..Len(tMaps), b \in 1..Len(tMaps) : a # b => tMaps[a] # tMaps[b]
        /\ \A a \in 1..Len(tMaps) :
             /\ DOMAIN tMaps[a] = S
             /\ \A v \in S : tMaps[a][v] \in BOOLEAN
             /\ \A m \in 1..n : tMaps[a][NthOf(S, m)] = combinations[a][m]
        /\ {tMaps[a] : a \in 1..Len(tMaps)} = [S -> BOOLEAN]

\* the eight assignments of 'p & (q | r)'
C30_Witness ==
  /\ tpc = "done"
  /\ xExpression = DocNested
  /\ Len(tMaps) = 8
  /\ tMaps[1] = [v \in {"p", "q", "r"} |-> FALSE]
  /\ tMaps[8] = [v \in {"p", "q", "r"} |-> TRUE]

\* the returned value as its reader sees it: the arrays in the place of their
\* addresses
Observed(r, h) ==
  IF "expression" \in DOMAIN r
  THEN [r EXCEPT !.substitutionSteps = h[@],
                 !.steps = [n \in 1..Len(h[@]) |->
                              IF "subSteps" \in DOMAIN h[@][n]
                              THEN [h[@][n] EXCEPT !.subSteps = h[@]]
                              ELSE h[@][n]]]
  ELSE r

\* the call of s run alone, from its first step to its return
RECURSIVE RunAlone(_, _)
RunAlone(s, h) ==
  IF s.pc = "done" THEN [s |-> s, h |-> h]
  ELSE LET r == Step(s, h) IN RunAlone(r.s, r.h)

Alone(s) == RunAlone(NewThread(s), <<>>)

\* the arrays of a call: its three lists and the subSteps of its steps
ArraysOf(s, h) ==
  ({s.steps, s.substitutionSteps, s.subSteps} \ {0})
    \cup (IF s.steps = 0 THEN {}
          ELSE {h[s.steps][n].subSteps :
                  n \in {m \in 1..Len(h[s.steps]) : "subSteps" \in DOMAIN h[s.steps][m]}})

\* a step of one call leaves the locals and the arrays of the other call as they are
StepsApart ==
  \A t \in 1..2 :
    th'[t] # th[t] =>
      /\ th'[3 - t] = th[3 - t]
      /\ \A a \in ArraysOf(th[3 - t], heap) : heap'[a] = heap[a]
      /\ ArraysOf(th'[t], heap') \cap ArraysOf(th'[3 - t], heap') = {}

\* C22: two evaluations whose steps interleave in any order return what they
\* return when run alone, the result and the step lists: no step of one call
\* reads or writes the locals or the arrays of the other.
C22_Interleaved ==
  /\ [](\A t \in 1..2 :
          th # <<>> /\ th[t].pc = "done" =>
            /\ Observed(th[t].ret[1], heap) = Observed(Alone(th[t]).s.ret[1], Alone(th[t]).h)
            /\ th[t].trail = Alone(th[t]).s.trail)
  /\ [][StepsApart]_vars

\* two traced calls on '(p|q)>~p': the second started after the first and has
\* returned while the first is still evaluating its group
C22_Witness ==
  /\ th # <<>>
  /\ th[1].pc = "subBin"
  /\ th[1].includeSteps
  /\ th[1].expression = Wrap(TightBinary(OR)) \o <<IMP, NOT, "p">>
  /\ th[1].caller = "paren"
  /\ th[2].pc = "done"
  /\ th[2].includeSteps
  /\ th[2].expression = th[1].expression
  /\ th[1].steps = 1
  /\ th[2].ret[1].steps = 3
  /\ th[1].subSteps = 6

\* the two calls have returned, and they differ in the trace flag only: the
\* first is traced, the second is not
TracedBesideUntraced ==
  /\ th # <<>>
  /\ th[1].pc = "done"
  /\ th[2].pc = "done"
  /\ th[1].expression = th[2].expression
  /\ th[1].values = th[2].values
  /\ th[1].includeSteps
  /\ ~th[2].includeSteps

\* C28: the traced and the untraced evaluation of an expression return the same
\* result, their working strings take the same values in the same order, and
\* the expression field of the traced result is the expression as given.
C28_TracingObservesOnly ==
  TracedBesideUntraced =>
    /\ th[1].ret[1].result = th[2].ret[1].result
    /\ th[1].trail = th[2].trail
    /\ "expression" \in DOMAIN th[1].ret[1]
    /\ th[1].ret[1].expression = th[1].expression

\* C28, amended: the same for every expression that is not empty; on the empty
\* expression both evaluations return result false and the traced result has
\* no expression field.
C28_ObservesOnlyUnlessEmpty ==
  TracedBesideUntraced =>
    /\ th[1].ret[1].result = th[2].ret[1].result
    /\ th[1].trail = th[2].trail
    /\ IF Falsy(th[1].expression)
       THEN "expression" \notin DOMAIN th[1].ret[1] /\ th[1].ret[1].result = FALSE
       ELSE "expression" \in DOMAIN th[1].ret[1]
              /\ th[1].ret[1].expression = th[1].expression

\* '(p|q)>~p' with p true and q false, traced and untraced: the working
\* strings went through the same seven values
C28_Witness ==
  /\ TracedBesideUntraced
  /\ th[1].expression = Wrap(TightBinary(OR)) \o <<IMP, NOT, "p">>
  /\ th[1].values = <<<<"p", TRUE>>, <<"q", FALSE>>>>
  /\ th[1].trail = th[2].trail
  /\ th[1].trail[Len(th[1].trail)] = <<"0">>
  /\ th[1].ret[1].expression = th[1].expression
  /\ Len(heap[th[1].ret[1].steps]) = 4

=============================================================================
